---- MODULE Spec2Model ----
(***************************************************************************)
(* Span lifecycle and trace-context propagation of the Nuxt/Nitro          *)
(* OpenTelemetry utilities (server/utils/otel.ts and its callers).         *)
(*                                                                         *)
(* Identifiers and header values are texts (runs of characters), so that   *)
(* the traceparent codec is modelled by what it parses.  The               *)
(* ambient context is the one the Node SDK installs (one active context    *)
(* per asynchronous call chain): each request owns the stack of the        *)
(* wrappers whose work is running, and the active context of its chain is  *)
(* the context of the span on top of that stack.                           *)
(***************************************************************************)
EXTENDS Integers, Sequences, FiniteSets, TLC

\* ------------------------------------------------------------------ bounds

\* in-flight requests handled concurrently
NumRequests == 2
\* spans started in one run (request, middleware, internal, background)
MaxSpans == 4
\* nesting depth of wrappers whose work is running in one request
MaxDepth == 3

\* background spans started in one run
MaxBackground == 1

Reqs == 1..NumRequests
\* how many times initOtel is called in the life of the process
NumInitCalls == 3
InitCalls == 1..NumInitCalls
\* how many createSpan operations the page makes, and how many requests it
\* sends through their transport helpers
NumOps == 2
MaxXhr == 2
Ops == 1..NumOps
\* how many childSpan calls the callbacks of the page make
MaxChild == 2
\* how many request-scoped spans the work of a handler forks in parallel
MaxForks == 2
\* how many times the page calls initOtelClient
MaxClientInits == 2

\* ------------------------------------------------------- identifiers, text

TraceIdLen == 32
SpanIdLen == 16

HexChars == {"0", "1", "2", "3", "4", "5", "6", "7", "8", "9",
             "a", "b", "c", "d", "e", "f"}
HexDigit == <<"0", "1", "2", "3", "4", "5", "6", "7", "8", "9",
              "a", "b", "c", "d", "e", "f">>

\* A text is kept as its runs of equal characters, <<character, count>>,
\* with no two neighbouring runs of the same character: "00-aaa" is
\* << <<"0", 2>>, <<"-", 1>>, <<"a", 3>> >>.
Rep(c, n) == IF n <= 0 THEN <<>> ELSE << <<c, n>> >>

\* s followed by t
Cat(s, t) ==
    IF s = <<>> THEN t
    ELSE IF t = <<>> THEN s
    ELSE IF s[Len(s)][1] = t[1][1]
         THEN SubSeq(s, 1, Len(s) - 1) \o << <<t[1][1], s[Len(s)][2] + t[1][2]>> >> \o Tail(t)
         ELSE s \o t

RECURSIVE Text(_)
\* the text whose characters are the elements of chars
Text(chars) == IF chars = <<>> THEN <<>> ELSE Cat(Rep(Head(chars), 1), Text(Tail(chars)))

RECURSIVE TLen(_)
\* the number of characters of s
TLen(s) == IF s = <<>> THEN 0 ELSE s[1][2] + TLen(Tail(s))

RECURSIVE Take(_, _)
\* the first k characters of s
Take(s, k) ==
    IF k <= 0 \/ s = <<>> THEN <<>>
    ELSE IF s[1][2] <= k THEN <<s[1]>> \o Take(Tail(s), k - s[1][2])
    ELSE << <<s[1][1], k>> >>

RECURSIVE Drop(_, _)
\* s without its first k characters
Drop(s, k) ==
    IF k <= 0 \/ s = <<>> THEN s
    ELSE IF s[1][2] <= k THEN Drop(Tail(s), k - s[1][2])
    ELSE << <<s[1][1], s[1][2] - k>> >> \o Tail(s)

\* the text from position a to position b of s (empty when a > b)
Sub(s, a, b) == Take(Drop(s, a - 1), b - a + 1)

IsHex(s) == \A i \in 1..Len(s) : s[i][1] \in HexChars
AllZero(s) == \A i \in 1..Len(s) : s[i][1] = "0"

\* the n-th identifier the SDK's id generator hands out, len characters long
GenId(n, len) ==
    Cat(Cat(Rep("0", len - 2), Rep(HexDigit[(n \div 16) + 1], 1)),
        Rep(HexDigit[(n % 16) + 1], 1))

\* ------------------------------------------------------------ the context

\* ROOT_CONTEXT: a context that holds no span
ROOT_CONTEXT == [traceId |-> <<>>, spanId |-> <<>>]

\* isSpanContextValid: the tracer parents a new span to a context only when
\* the span context in it is valid
isSpanContextValid(ctx) ==
    /\ TLen(ctx.traceId) = TraceIdLen /\ IsHex(ctx.traceId) /\ ~AllZero(ctx.traceId)
    /\ TLen(ctx.spanId) = SpanIdLen /\ IsHex(ctx.spanId) /\ ~AllZero(ctx.spanId)

\* ---------------------------------------------------- traceparent decoding

\* a decoding that takes the two id fields wherever the header is long enough
parseTraceParent_noChecks(h) ==
    IF TLen(h) < 55 THEN ROOT_CONTEXT
    ELSE [traceId |-> Sub(h, 4, 35), spanId |-> Sub(h, 37, 52)]

\* The W3C propagator behind propagation.extract: the header must read
\* vv-<32 hex>-<16 hex>-<2 hex>, optionally followed by -<anything>; version ff,
\* an all-zero trace id or span id, and a version 00 header with more parts
\* are rejected.  ROOT_CONTEXT is the "no parent" answer.
parseTraceParent(h) ==
    LET version == Sub(h, 1, 2)
        tid     == Sub(h, 4, 35)
        sid     == Sub(h, 37, 52)
        flags   == Sub(h, 54, 55)
        dash    == Rep("-", 1)
    IN  IF /\ TLen(h) >= 55
           /\ IsHex(version) /\ version # Rep("f", 2)
           /\ Sub(h, 3, 3) = dash /\ Sub(h, 36, 36) = dash /\ Sub(h, 53, 53) = dash
           /\ IsHex(tid) /\ ~AllZero(tid)
           /\ IsHex(sid) /\ ~AllZero(sid)
           /\ IsHex(flags)
           /\ (TLen(h) > 55 => Sub(h, 56, 56) = dash)
           /\ ~(version = Rep("0", 2) /\ TLen(h) > 55)
        THEN [traceId |-> tid, spanId |-> sid]
        ELSE ROOT_CONTEXT

\* a header without the flags field
traceParent_noFlags(traceId, spanId) ==
    Cat(Cat(Cat(Text(<<"0", "0", "-">>), traceId), Rep("-", 1)), spanId)

\* `00-${traceId}-${spanId}-01`
traceParent(traceId, spanId) ==
    Cat(Cat(Cat(Cat(Text(<<"0", "0", "-">>), traceId), Rep("-", 1)), spanId),
        Text(<<"-", "0", "1">>))

\* ------------------------------------------------------- incoming headers

TraceA == Rep("a", TraceIdLen)
TraceB == Rep("b", TraceIdLen)
SpanA == Rep("c", SpanIdLen)
SpanB == Rep("d", SpanIdLen)

\* no traceparent header at all (an empty value is dropped from the carrier)
Missing == <<>>

ValidHeaders == {traceParent(TraceA, SpanA), traceParent(TraceB, SpanB)}

MalformedHeaders ==
    { Cat(Text(<<"f", "f", "-">>), Drop(traceParent(TraceA, SpanA), 3)),
      traceParent(Rep("a", TraceIdLen - 1), SpanA),
      traceParent(Rep("0", TraceIdLen), SpanA),
      traceParent(TraceA, Rep("0", SpanIdLen)),
      traceParent(Rep("A", TraceIdLen), SpanA),
      Cat(traceParent(TraceA, SpanA), Text(<<"-", "x">>)),
      Cat(Cat(Cat(Rep("0", 2), TraceA), SpanA), Text(<<"0", "1">>)),
      Text(<<"g", "a", "r", "b", "a", "g", "e">>) }

Headers == {Missing} \cup ValidHeaders \cup MalformedHeaders

\* each valid header with the trace id and the span id it was made of
ValidHeaderIds ==
    { <<traceParent(TraceA, SpanA), TraceA, SpanA>>,
      <<traceParent(TraceB, SpanB), TraceB, SpanB>> }

\* ------------------------------------------------------------- JS values

\* A JavaScript object as the wrappers see it: whether it is an Error
\* instance, its own properties, and which of them are enumerable (an
\* Error's message is an own property that is not enumerable).
PlainObject(props) == [isError |-> FALSE, props |-> props, enum |-> DOMAIN props]

NotFound == PlainObject([message |-> "not found", statusCode |-> "404"])
UserNotFound == PlainObject([code |-> "NOT_FOUND", message |-> "User not found"])
ErrorInstance == [isError |-> TRUE,
                  props |-> [message |-> "db down", statusCode |-> "503"],
                  enum |-> {"statusCode"}]
Boom == [isError |-> TRUE, props |-> [message |-> "boom"], enum |-> {}]

\* failure values a handler's or a middleware's work returns (E extends HandlerError)
HandlerFailures == {NotFound, ErrorInstance}
\* failure values the work of an internal or background span returns
InternalFailures == {UserNotFound}
\* what a work function throws
Thrown == {Boom}
\* success values
Values == {"v1"}

ok(v) == [tag |-> "ok", payload |-> v]
err(e) == [tag |-> "err", payload |-> e]
thrown(e) == [tag |-> "throw", payload |-> e]
NoOutcome == [tag |-> "none", payload |-> "none"]

\* { ...error, traceId, spanId }: the own enumerable properties of error, then the ids
Spread(error, traceId, spanId) ==
    PlainObject([f \in error.enum \cup {"traceId", "spanId"} |->
                    IF f = "traceId" THEN traceId
                    ELSE IF f = "spanId" THEN spanId
                    ELSE error.props[f]])

getErrorMessage(error) ==
    IF error.isError THEN error.props.message
    ELSE IF "message" \in DOMAIN error.props THEN error.props.message
    ELSE "[object Object]"

\* createError({statusCode, statusMessage, data}): the request error h3 raises
createError(statusCode, statusMessage, data) ==
    [kind |-> "error", statusCode |-> statusCode, statusMessage |-> statusMessage,
     data |-> data]
NoData == [error |-> "none", traceId |-> <<>>, spanId |-> <<>>]
\* x ?? 500 on the statusCode of a thrown value
statusCodeOf(e) == IF "statusCode" \in DOMAIN e.props THEN e.props.statusCode ELSE "500"
\* reading property f of object o (undefined when o has no such property)
Get(o, f) == IF f \in DOMAIN o.props THEN o.props[f] ELSE "undefined"

\* ------------------------------------------------------------------ state

VARIABLES
    api,          \* which version of server/utils/otel.ts is deployed:
                  \* "result" (neverthrow Results) or "throwing" (try/catch)
    reqHeader,    \* request -> the incoming traceparent header value
    reqPath,      \* request -> event.path, a sequence of characters
    phase,        \* request -> "absent" | "new" | "middleware" | "mwDone" | "handler" | "responded"
    stack,        \* request -> the spans (numbers) whose work is running, innermost last
    ret,          \* request -> what the wrapper that settled last handed to its caller
    spans,        \* every span started so far, in the order of their start
    eventCtx,     \* request -> event[TRACE_CONTEXT_KEY] (ROOT_CONTEXT when unset)
    respHeaders,  \* request -> the X-Trace-Id / X-Span-Id response headers
    response,     \* request -> the outcome the framework got for the request
    config,       \* useRuntimeConfig(): axiomToken and axiomDataset ("" when not set)
    initialized,  \* the module's `initialized` flag
    sdk,          \* the module's `sdk`: "null" or "started" (a NodeSDK that was started)
    sdkStarts,    \* how many times a NodeSDK was constructed and started
    sigtermHandlers, \* how many SIGTERM listeners initOtel has registered
    warnings,     \* how many times the missing-credentials warning was logged
    initCall,     \* call of initOtel -> where it is and what it returned
    proc,         \* the server process: "running" or "exited"
    shutdown,     \* the promise of sdk.shutdown(): "none" | "pending" | "resolved" | "rejected"
    clientInitialized, \* otel.client.ts: the module's `initialized` flag
    initPromise,  \* otel.client.ts: `initPromise`: "null" | "pending" | "settled"
    tracer,       \* otel.client.ts: `tracer`: "null" or "tracer"
    ops,          \* client createSpan operation -> where it is, its span, its result
    cspans,       \* every span the browser's tracer started, in the order of their start
    xhrs,         \* every request sent through a transport helper, in the order sent
    clientLog,    \* calls of initOtelClient, runs of its body, console.error lines, rejections
    wire          \* one header on its way from the browser's encoder to the server's decoder

serverVars == <<api, reqHeader, reqPath, phase, stack, ret, spans, eventCtx, respHeaders, response>>
bootVars == <<config, initialized, sdk, sdkStarts, sigtermHandlers, warnings, initCall,
              proc, shutdown>>
clientVars == <<clientInitialized, initPromise, tracer, ops, cspans, xhrs, clientLog>>
vars == <<serverVars, bootVars, clientVars, wire>>

\* ------------------------------------------------------------- span objects

NoParent == <<>>

\* tracer.startSpan under parentCtx: a child of the span in parentCtx when that
\* span context is valid, the root of a fresh trace otherwise.  n is the number
\* of the span in the process (its ids come from the SDK's generator).
\* Until sdk.start() has registered a tracer provider the API hands out its
\* no-op tracer, whose spans record nothing and carry the parent's span
\* context when it is valid and the invalid all-zero one otherwise.
NewSpan(n, fn, r, parentCtx, caller) ==
    [fn |-> fn, req |-> r,
     recording |-> sdk = "started",
     traceId |-> IF isSpanContextValid(parentCtx) THEN parentCtx.traceId
                 ELSE IF sdk = "started" THEN GenId(n, TraceIdLen)
                 ELSE Rep("0", TraceIdLen),
     spanId |-> IF sdk = "started" THEN GenId(n, SpanIdLen)
                ELSE IF isSpanContextValid(parentCtx) THEN parentCtx.spanId
                ELSE Rep("0", SpanIdLen),
     parentSpanId |-> IF sdk = "started" /\ isSpanContextValid(parentCtx)
                      THEN parentCtx.spanId ELSE NoParent,
     caller |-> caller,
     status |-> "UNSET", message |-> "", exceptions |-> 0, attrs |-> {},
     logged |-> FALSE, unhandled |-> FALSE, ends |-> 0, late |-> 0,
     exported |-> "none",
     outcome |-> NoOutcome, handed |-> NoOutcome]

\* span.spanContext() / trace.setSpan(ctx, span): the context that holds span
spanContext(span) == [traceId |-> span.traceId, spanId |-> span.spanId]

\* The span API.  A call on a span that has ended changes nothing (the SDK
\* ignores it); late counts such calls.  Every call on a span of the no-op
\* tracer does nothing.
setStatus(span, code, message) ==
    IF ~span.recording THEN span
    ELSE IF span.ends > 0 THEN [span EXCEPT !.late = @ + 1]
    ELSE [span EXCEPT !.status = code, !.message = message]
recordException(span) ==
    IF ~span.recording THEN span
    ELSE IF span.ends > 0 THEN [span EXCEPT !.late = @ + 1]
    ELSE [span EXCEPT !.exceptions = @ + 1]
setAttribute(span, key) ==
    IF ~span.recording THEN span
    ELSE IF span.ends > 0 THEN [span EXCEPT !.late = @ + 1]
    ELSE [span EXCEPT !.attrs = @ \cup {key}]
\* span.end() hands the span to the span processor, which queues it for the
\* exporter and returns
end(span) ==
    IF ~span.recording THEN span
    ELSE [span EXCEPT !.ends = @ + 1,
                      !.exported = IF span.ends = 0 THEN "queued" ELSE @]

\* ---------------------------------------------------------- initial states

NoHeaders == [traceId |-> <<>>, spanId |-> <<>>]
NoResponse == [kind |-> "none"]

\* the concurrent case: every request is in flight, the first with no header
\* or a valid one, the others with another valid header
InitConcurrent ==
    /\ reqHeader \in {[r \in Reqs |-> IF r = 1 THEN h ELSE traceParent(TraceB, SpanB)] :
                        h \in {Missing, traceParent(TraceA, SpanA)}}
    /\ phase = [r \in Reqs |-> "new"]

\* the single case: the first request alone, with any header of Headers
InitSingle ==
    /\ reqHeader \in {[r \in Reqs |-> IF r = 1 THEN h ELSE Missing] : h \in Headers}
    /\ phase = [r \in Reqs |-> IF r = 1 THEN "new" ELSE "absent"]

\* server/api/test-trace.get.ts is served at /api/test-trace
TestTracePath == <<"/", "a", "p", "i", "/", "t", "e", "s", "t", "-", "t", "r", "a", "c", "e">>

\* no request has been touched yet
InitUntouched ==
    /\ stack = [r \in Reqs |-> <<>>]
    /\ ret = [r \in Reqs |-> NoOutcome]
    /\ spans = <<>>
    /\ eventCtx = [r \in Reqs |-> ROOT_CONTEXT]
    /\ respHeaders = [r \in Reqs |-> NoHeaders]
    /\ response = [r \in Reqs |-> NoResponse]

\* untouched requests, every one of them to the traced route
InitRequests ==
    /\ reqPath = [r \in Reqs |-> TestTracePath]
    /\ InitUntouched

Credentials == [axiomToken |-> "token", axiomDataset |-> "dataset"]
NotCalled == [pc |-> "idle", result |-> "none"]

\* the server after its plugin's initOtel() has started the SDK
InitStarted ==
    /\ config = Credentials
    /\ initialized = TRUE
    /\ sdk = "started"
    /\ sdkStarts = 1 /\ sigtermHandlers = 1 /\ warnings = 0
    /\ initCall = [c \in InitCalls |-> IF c = 1 THEN [pc |-> "returned", result |-> "started"]
                                        ELSE NotCalled]
    /\ proc = "running" /\ shutdown = "none"

\* a createSpan operation that was not called yet. frames: the childSpan
\* callbacks of the operation that are running, innermost last (the span of
\* each, 0 where it got none); calls: how many times fn was invoked; passed:
\* requests made through the global $fetch / fetch; outcome: what fn
\* produced; result: what createSpan handed to its caller
NoOp == [pc |-> "idle", span |-> 0, outcome |-> NoOutcome, result |-> NoOutcome,
         frames |-> <<>>, calls |-> 0, passed |-> 0]
NoClientLog == [calls |-> 0, runs |-> 0, errors |-> 0, rejections |-> 0]
\* no header under way
NoWire == [pc |-> "none", traceId |-> <<>>, spanId |-> <<>>, header |-> <<>>,
           ctx |-> ROOT_CONTEXT]

\* a page whose tracing plugin has not run
InitPage ==
    /\ clientInitialized = FALSE
    /\ initPromise = "null"
    /\ tracer = "null"
    /\ ops = [k \in Ops |-> NoOp]
    /\ cspans = <<>>
    /\ xhrs = <<>>
    /\ clientLog = NoClientLog
    /\ wire = NoWire

\* requests served by a process whose SDK is started
Init ==
    /\ api \in {"result", "throwing"}
    /\ InitConcurrent \/ InitSingle
    /\ InitRequests
    /\ InitStarted
    /\ InitPage

\* ------------------------------------------------------- context lookup

\* an extraction that finds nothing (no propagator registered)
extractTraceContext_ignore(r) == ROOT_CONTEXT

\* propagation.extract(ROOT_CONTEXT, carrier) on the request's headers: the
\* W3C propagator is the global one from initOtel's setGlobalPropagator on,
\* before that the API's no-op propagator extracts nothing
extractTraceContext(r) ==
    IF sdk # "started" \/ reqHeader[r] = Missing THEN ROOT_CONTEXT
    ELSE parseTraceParent(reqHeader[r])

\* a lookup that never reads the context stored on the event
getEventTraceContext_headers(r) == extractTraceContext(r)

\* the stored context of some request, whichever it is (a module-level slot)
getEventTraceContext_shared(r) ==
    IF \E q \in Reqs : eventCtx[q] # ROOT_CONTEXT
    THEN eventCtx[CHOOSE q \in Reqs : eventCtx[q] # ROOT_CONTEXT]
    ELSE extractTraceContext(r)

\* a lookup that prefers the incoming header to the stored context
getEventTraceContext_headerFirst(r) ==
    IF extractTraceContext(r) # ROOT_CONTEXT THEN extractTraceContext(r) ELSE eventCtx[r]

\* getEventTraceContext: the context stored on the event when there is one,
\* the one extracted from the headers otherwise
getEventTraceContext(r) ==
    IF eventCtx[r] # ROOT_CONTEXT THEN eventCtx[r] ELSE extractTraceContext(r)

\* the span whose work is running innermost in request r (0 when none)
Top(r) == IF stack[r] = <<>> THEN 0 ELSE stack[r][Len(stack[r])]

\* an ambient context that is lost across the call (no context manager)
active_root(r) == ROOT_CONTEXT

\* context.active() in the call chain of request r
active(r) == IF Top(r) = 0 THEN ROOT_CONTEXT ELSE spanContext(spans[Top(r)])

\* setHeader(event, "X-Trace-Id", traceId); setHeader(event, "X-Span-Id", spanId)
setTraceHeaders_skip(r, span) == respHeaders

\* headers that only the first traced step of a request writes
setTraceHeaders_first(r, span) ==
    IF respHeaders[r] # NoHeaders THEN respHeaders
    ELSE [respHeaders EXCEPT ![r] = [traceId |-> span.traceId, spanId |-> span.spanId]]

setTraceHeaders(r, span) ==
    [respHeaders EXCEPT ![r] = [traceId |-> span.traceId, spanId |-> span.spanId]]

\* ------------------------------------------------- how a wrapper finalizes

\* the ERROR path shared by the wrappers: recordException, setStatus, the
\* attributes in keys, end
finalizeError(span, message, keys) ==
    LET s1 == setStatus(recordException(span), "ERROR", message)
        s2 == IF "error" \in keys THEN setAttribute(s1, "error") ELSE s1
        s3 == IF "error.message" \in keys THEN setAttribute(s2, "error.message") ELSE s2
    IN  end(s3)

\* a wrapper that ends the span before it sets the status
finalizeOk_endFirst(span) == setStatus(end(span), "OK", "")

\* the OK path shared by the wrappers: setStatus, end
finalizeOk(span) == end(setStatus(span, "OK", ""))

\* createSpanFromRequest after `await fn(span)`
requestSpanSettled(span, out) ==
    IF api = "result"
    THEN CASE out.tag = "err" ->
                finalizeError(span, getErrorMessage(out.payload), {"error", "error.message"})
           [] out.tag = "ok" -> finalizeOk(span)
           [] OTHER -> span
    ELSE CASE out.tag = "throw" ->
                finalizeError(span, out.payload.props.message, {"error", "error.message"})
           [] OTHER -> finalizeOk(span)

\* what createSpanFromRequest hands to its caller
requestSpanResult(span, out) ==
    IF api = "result"
    THEN CASE out.tag = "err" -> err(Spread(out.payload, span.traceId, span.spanId))
           [] OTHER -> out
    ELSE CASE out.tag = "throw" ->
                thrown(createError(statusCodeOf(out.payload), out.payload.props.message,
                                   [error |-> out.payload.props.message,
                                    traceId |-> span.traceId, spanId |-> span.spanId]))
           [] OTHER -> out

\* a handler that flushes the exporter before it answers, and fails the
\* request when a span could not be exported
handlerResponse_flushed(result) ==
    IF \E n \in 1..Len(spans) : spans[n].exported = "failed"
    THEN createError("502", "export failed", NoData)
    ELSE CASE result.tag = "err" ->
                createError(Get(result.payload, "statusCode"), Get(result.payload, "message"),
                            [error |-> Get(result.payload, "message"),
                             traceId |-> Get(result.payload, "traceId"),
                             spanId |-> Get(result.payload, "spanId")])
           [] result.tag = "ok" -> [kind |-> "value", value |-> result.payload]
           [] result.tag = "throw" /\ api = "throwing" -> result.payload
           [] OTHER -> [kind |-> "unhandled", error |-> result.payload]

\* a handler that answers every failure with a generic 500
handlerResponse_generic(result) ==
    CASE result.tag = "ok" -> [kind |-> "value", value |-> result.payload]
      [] OTHER -> createError("500", "Internal Server Error", NoData)

\* defineTracedHandler (result version) or the plain event handler around the
\* throwing version: the outcome of the request given what createSpanFromRequest
\* handed back
handlerResponse(result) ==
    IF api = "result"
    THEN CASE result.tag = "err" ->
                createError(Get(result.payload, "statusCode"), Get(result.payload, "message"),
                            [error |-> Get(result.payload, "message"),
                             traceId |-> Get(result.payload, "traceId"),
                             spanId |-> Get(result.payload, "spanId")])
           [] result.tag = "ok" -> [kind |-> "value", value |-> result.payload]
           [] OTHER -> [kind |-> "unhandled", error |-> result.payload]
    ELSE CASE result.tag = "throw" -> result.payload
           [] OTHER -> [kind |-> "value", value |-> result.payload]

\* createSpan after `await fn(span)`
internalSpanSettled(span, out) ==
    IF api = "result"
    THEN CASE out.tag = "err" -> finalizeError(span, getErrorMessage(out.payload), {"error"})
           [] out.tag = "ok" -> finalizeOk(span)
           [] OTHER -> span
    ELSE CASE out.tag = "throw" -> finalizeError(span, out.payload.props.message, {"error"})
           [] OTHER -> finalizeOk(span)

\* a createSpan that annotates a failure with the span's ids, as
\* createSpanFromRequest does
internalSpanResult_annotated(span, out) ==
    IF out.tag = "err" THEN err(Spread(out.payload, span.traceId, span.spanId)) ELSE out

\* what createSpan hands to its caller: `return result` in the result
\* version; `return result` or `throw error` in the throwing version; the
\* rejection of fn where the result version has no catch
internalSpanResult(span, out) == out

\* defineTracedMiddleware after `await fn(event, span)`
middlewareSpanSettled(span, out) ==
    CASE out.tag = "err" ->
            finalizeError(span, getErrorMessage(out.payload), {"error", "error.message"})
      [] out.tag = "ok" -> finalizeOk(span)
      [] OTHER -> span

\* a middleware that swallows the failure of its step
middlewareResponse_swallow(span, out) ==
    CASE out.tag = "throw" -> [kind |-> "unhandled", error |-> out.payload]
      [] OTHER -> NoResponse

\* what the middleware hands to the framework: nothing when its step
\* succeeded, the request error it throws when the step returned a failure
middlewareResponse(span, out) ==
    CASE out.tag = "err" ->
            createError(Get(out.payload, "statusCode"), getErrorMessage(out.payload),
                        [error |-> getErrorMessage(out.payload),
                         traceId |-> span.traceId, spanId |-> span.spanId])
      [] out.tag = "ok" -> NoResponse
      [] OTHER -> [kind |-> "unhandled", error |-> out.payload]

\* a background wrapper that ends the span without looking at the result
backgroundSpanSettled_silent(span, out) == end(setStatus(span, "OK", ""))

\* createSpanInBackground (result version) / fireAndForget (throwing version)
\* after `await fn(span)`.  In the result version a throw of fn rejects the
\* promise of the async callback, which nobody holds: the rest of the callback
\* is skipped and the rejection is unhandled.
backgroundSpanSettled(span, out) ==
    IF api = "result"
    THEN CASE out.tag = "err" ->
                end(setStatus(recordException([span EXCEPT !.logged = TRUE]),
                              "ERROR", getErrorMessage(out.payload)))
           [] out.tag = "ok" -> end(setStatus(span, "OK", ""))
           [] OTHER -> [span EXCEPT !.unhandled = TRUE]
    ELSE CASE out.tag = "throw" ->
                end(setStatus(recordException([span EXCEPT !.logged = TRUE]),
                              "ERROR", out.payload.props.message))
           [] OTHER -> end(setStatus(span, "OK", ""))

\* ----------------------------------------------------- what work can do

\* how the work wrapped by a wrapper of kind fn can settle
Outcomes(fn) ==
    IF api = "result"
    THEN CASE fn = "middleware" ->
                {ok("undefined")} \cup {err(e) : e \in HandlerFailures}
                    \cup {thrown(e) : e \in Thrown}
           [] fn = "request" ->
                {ok(v) : v \in Values} \cup {err(e) : e \in HandlerFailures}
                    \cup {thrown(e) : e \in Thrown}
           [] OTHER ->
                {ok(v) : v \in Values} \cup {err(e) : e \in InternalFailures}
                    \cup {thrown(e) : e \in Thrown}
    ELSE {ok(v) : v \in Values} \cup {thrown(e) : e \in Thrown \cup {ErrorInstance}}

Pop(seq) == SubSeq(seq, 1, Len(seq) - 1)

\* ---------------------------------------------------------------- actions

\* defineTracedMiddleware, up to `await fn(event, span)`: the middleware runs
\* first for a request (result version only)
defineTracedMiddleware(r) ==
    /\ api = "result"
    /\ phase[r] = "new"
    /\ Len(spans) < MaxSpans
    /\ LET parentContext == getEventTraceContext(r)
           n == Len(spans) + 1
           span == NewSpan(n, "middleware", r, parentContext, 0)
       IN  /\ spans' = Append(spans, span)
           /\ eventCtx' = [eventCtx EXCEPT ![r] = spanContext(span)]
           /\ respHeaders' = setTraceHeaders(r, span)
           /\ stack' = [stack EXCEPT ![r] = <<n>>]
    /\ phase' = [phase EXCEPT ![r] = "middleware"]
    /\ UNCHANGED <<api, reqPath, reqHeader, ret, response>>
    /\ UNCHANGED <<bootVars, clientVars, wire>>

\* defineTracedMiddleware from the settling of its work to its return or throw
middlewareSettles(r, out) ==
    /\ phase[r] = "middleware"
    /\ Len(stack[r]) = 1
    /\ out \in Outcomes("middleware")
    /\ LET n == Top(r)
           done == middlewareSpanSettled(spans[n], out)
       IN  /\ spans' = [spans EXCEPT ![n] = [done EXCEPT !.outcome = out]]
           /\ response' = [response EXCEPT ![r] = middlewareResponse(spans[n], out)]
    /\ stack' = [stack EXCEPT ![r] = <<>>]
    /\ ret' = [ret EXCEPT ![r] = NoOutcome]
    \* the framework goes on to the handler when the middleware returned
    \* nothing, and answers the request with what it threw otherwise
    /\ phase' = [phase EXCEPT ![r] = IF response'[r] = NoResponse THEN "mwDone"
                                      ELSE "responded"]
    /\ UNCHANGED <<api, reqPath, reqHeader, eventCtx, respHeaders>>
    /\ UNCHANGED <<bootVars, clientVars, wire>>

\* createSpanFromRequest (called by defineTracedHandler in the result version,
\* by the event handler in the throwing one), up to `await fn(span)`
createSpanFromRequest(r) ==
    /\ phase[r] \in {"new", "mwDone"}
    /\ Len(spans) < MaxSpans
    /\ LET parentContext == IF api = "result" THEN getEventTraceContext(r)
                            ELSE extractTraceContext(r)
           n == Len(spans) + 1
           span == NewSpan(n, "request", r, parentContext, 0)
       IN  /\ spans' = Append(spans, span)
           /\ respHeaders' = setTraceHeaders(r, span)
           /\ eventCtx' = IF api = "result"
                          THEN [eventCtx EXCEPT ![r] = spanContext(span)]
                          ELSE eventCtx
           /\ stack' = [stack EXCEPT ![r] = <<n>>]
    /\ phase' = [phase EXCEPT ![r] = "handler"]
    /\ UNCHANGED <<api, reqPath, reqHeader, ret, response>>
    /\ UNCHANGED <<bootVars, clientVars, wire>>

\* createSpanFromRequest from the settling of its work on, and the handler
\* around it: the request gets its outcome
requestSettles(r, out) ==
    /\ phase[r] = "handler"
    /\ Len(stack[r]) = 1
    /\ out \in Outcomes("request")
    /\ LET n == Top(r)
           result == requestSpanResult(spans[n], out)
       IN  /\ spans' = [spans EXCEPT ![n] = [requestSpanSettled(spans[n], out)
                                                EXCEPT !.outcome = out]]
           /\ ret' = [ret EXCEPT ![r] = result]
           /\ response' = [response EXCEPT ![r] = handlerResponse(result)]
    /\ stack' = [stack EXCEPT ![r] = <<>>]
    /\ phase' = [phase EXCEPT ![r] = "responded"]
    /\ UNCHANGED <<api, reqPath, reqHeader, eventCtx, respHeaders>>
    /\ UNCHANGED <<bootVars, clientVars, wire>>

\* createSpan called by the work that is running innermost in request r, up
\* to `await fn(span)`
createSpan(r) ==
    /\ stack[r] # <<>>
    /\ Len(stack[r]) < MaxDepth
    /\ Len(spans) < MaxSpans
    /\ LET n == Len(spans) + 1
           span == NewSpan(n, "internal", r, active(r), Top(r))
       IN  /\ spans' = Append(spans, span)
           /\ stack' = [stack EXCEPT ![r] = Append(@, n)]
    /\ ret' = [ret EXCEPT ![r] = NoOutcome]
    /\ UNCHANGED <<api, reqPath, reqHeader, phase, eventCtx, respHeaders, response>>
    /\ UNCHANGED <<bootVars, clientVars, wire>>

\* createSpan from the settling of its work to its return or throw
internalSettles(r, out) ==
    /\ Len(stack[r]) > 1
    /\ out \in Outcomes("internal")
    /\ LET n == Top(r)
       IN  /\ spans' = [spans EXCEPT ![n] =
                            [internalSpanSettled(spans[n], out)
                                EXCEPT !.outcome = out,
                                       !.handed = internalSpanResult(spans[n], out)]]
           /\ ret' = [ret EXCEPT ![r] = internalSpanResult(spans[n], out)]
    /\ stack' = [stack EXCEPT ![r] = Pop(@)]
    /\ UNCHANGED <<api, reqPath, reqHeader, phase, eventCtx, respHeaders, response>>
    /\ UNCHANGED <<bootVars, clientVars, wire>>

\* the context stored on the request instead of the ambient one
backgroundContext_event(r) == eventCtx[r]

\* the context createSpanInBackground captures: `context.active()`
backgroundContext(r) == active(r)

\* a wrapper whose caller awaits the background work
createSpanInBackground_awaited(r) ==
    /\ stack[r] # <<>>
    /\ Len(stack[r]) < MaxDepth
    /\ Len(spans) < MaxSpans
    /\ Cardinality({n \in 1..Len(spans) : spans[n].fn = "background"}) < MaxBackground
    /\ LET n == Len(spans) + 1
           span == NewSpan(n, "background", r, backgroundContext(r), Top(r))
       IN  /\ spans' = Append(spans, span)
           /\ stack' = [stack EXCEPT ![r] = Append(@, n)]
    /\ UNCHANGED <<api, reqPath, reqHeader, phase, ret, eventCtx, respHeaders, response>>
    /\ UNCHANGED <<bootVars, clientVars, wire>>

\* createSpanInBackground / fireAndForget called by the work running innermost
\* in request r: the span is started before the call returns, its work goes on
\* on its own
createSpanInBackground(r) ==
    /\ stack[r] # <<>>
    /\ Len(spans) < MaxSpans
    /\ Cardinality({n \in 1..Len(spans) : spans[n].fn = "background"}) < MaxBackground
    /\ LET n == Len(spans) + 1
           span == NewSpan(n, "background", r, backgroundContext(r), Top(r))
       IN  spans' = Append(spans, span)
    /\ UNCHANGED <<api, reqPath, reqHeader, phase, stack, ret, eventCtx, respHeaders, response>>
    /\ UNCHANGED <<bootVars, clientVars, wire>>

\* the work of background span n settles
backgroundSettles(n, out) ==
    /\ n \in 1..Len(spans)
    /\ spans[n].fn = "background"
    /\ spans[n].outcome.tag = "none"
    /\ out \in Outcomes("background")
    /\ spans' = [spans EXCEPT ![n] = [backgroundSpanSettled(spans[n], out)
                                         EXCEPT !.outcome = out]]
    /\ UNCHANGED <<api, reqPath, reqHeader, phase, stack, ret, eventCtx, respHeaders, response>>
    /\ UNCHANGED <<bootVars, clientVars, wire>>

AllOutcomes ==
    {ok(v) : v \in Values \cup {"undefined"}}
        \cup {err(e) : e \in HandlerFailures \cup InternalFailures}
        \cup {thrown(e) : e \in Thrown \cup {ErrorInstance}}

Next ==
    \/ \E r \in Reqs : defineTracedMiddleware(r)
    \/ \E r \in Reqs, out \in AllOutcomes : middlewareSettles(r, out)
    \/ \E r \in Reqs : createSpanFromRequest(r)
    \/ \E r \in Reqs, out \in AllOutcomes : requestSettles(r, out)
    \/ \E r \in Reqs : createSpan(r)
    \/ \E r \in Reqs, out \in AllOutcomes : internalSettles(r, out)
    \/ \E r \in Reqs : createSpanInBackground(r)
    \/ \E n \in 1..MaxSpans, out \in AllOutcomes : backgroundSettles(n, out)

Spec == Init /\ [][Next]_vars

\* ------------------------------------------------- start and stop of the SDK

\* a guard that lets every call initialize again
alreadyInitialized_never == FALSE

\* `if (initialized) return sdk;`
alreadyInitialized == initialized

\* a check that looks at the token only
credentialsMissing_tokenOnly(cfg) == cfg.axiomToken = ""

\* `!axiomToken || !axiomDataset`
credentialsMissing(cfg) == cfg.axiomToken = "" \/ cfg.axiomDataset = ""

Returned(value) == [pc |-> "returned", result |-> value]

\* initOtel from its call to its first await or return: the guard on
\* `initialized`, the flag set, the configuration read, the credential check
initOtel(c) ==
    /\ proc = "running"
    /\ initCall[c].pc = "idle"
    \* the calls are numbered in the order in which they are made
    /\ \A d \in 1..(c - 1) : initCall[d].pc # "idle"
    /\ IF alreadyInitialized
       THEN /\ initCall' = [initCall EXCEPT ![c] = Returned(sdk)]
            /\ UNCHANGED <<initialized, warnings>>
       ELSE /\ initialized' = TRUE
            /\ IF credentialsMissing(config)
               THEN /\ warnings' = warnings + 1
                    /\ initCall' = [initCall EXCEPT ![c] = Returned("null")]
               ELSE /\ initCall' = [initCall EXCEPT ![c].pc = "importing"]
                    /\ UNCHANGED warnings
    /\ UNCHANGED <<config, sdk, sdkStarts, sigtermHandlers, proc, shutdown>>
    /\ UNCHANGED <<serverVars, clientVars, wire>>

\* initOtel from the resolution of its dynamic imports to its return: the
\* global propagator, new NodeSDK, sdk.start(), process.on("SIGTERM", ...)
importsLoaded(c) ==
    /\ proc = "running"
    /\ initCall[c].pc = "importing"
    /\ sdk' = "started"
    /\ sdkStarts' = sdkStarts + 1
    /\ sigtermHandlers' = sigtermHandlers + 1
    /\ initCall' = [initCall EXCEPT ![c] = Returned("started")]
    /\ UNCHANGED <<config, initialized, warnings, proc, shutdown>>
    /\ UNCHANGED <<serverVars, clientVars, wire>>

\* a listener that exits at once and lets the flush run behind it
sigterm_exitNow ==
    /\ proc = "running"
    /\ shutdown = "none"
    /\ IF sigtermHandlers = 0
       THEN /\ proc' = "exited"
            /\ UNCHANGED shutdown
       ELSE /\ shutdown' = "pending"
            /\ proc' = "exited"
    /\ UNCHANGED <<config, initialized, sdk, sdkStarts, sigtermHandlers, warnings, initCall>>
    /\ UNCHANGED <<serverVars, clientVars, wire>>

\* the process receives SIGTERM: with no listener registered the signal ends
\* the process; with initOtel's listener, `sdk?.shutdown()` starts the flush
\* and the process goes on until it settles
sigterm ==
    /\ proc = "running"
    /\ shutdown = "none"
    /\ IF sigtermHandlers = 0
       THEN /\ proc' = "exited"
            /\ UNCHANGED shutdown
       ELSE /\ shutdown' = "pending"
            /\ UNCHANGED proc
    /\ UNCHANGED <<config, initialized, sdk, sdkStarts, sigtermHandlers, warnings, initCall>>
    /\ UNCHANGED <<serverVars, clientVars, wire>>

\* the promise of sdk.shutdown() settles and its `.finally(() =>
\* process.exit(0))` runs
shutdownSettles(settled) ==
    /\ proc = "running"
    /\ shutdown = "pending"
    /\ settled \in {"resolved", "rejected"}
    /\ shutdown' = settled
    /\ proc' = "exited"
    /\ UNCHANGED <<config, initialized, sdk, sdkStarts, sigtermHandlers, warnings, initCall>>
    /\ UNCHANGED <<serverVars, clientVars, wire>>

\* a process that has not called initOtel yet, with or without credentials,
\* and one request that can come at any time
InitBoot ==
    /\ api \in {"result", "throwing"}
    /\ reqHeader = [r \in Reqs |-> IF r = 1 THEN traceParent(TraceA, SpanA) ELSE Missing]
    /\ phase = [r \in Reqs |-> IF r = 1 THEN "new" ELSE "absent"]
    /\ InitRequests
    /\ config \in [axiomToken : {"", "token"}, axiomDataset : {"", "dataset"}]
    /\ initialized = FALSE
    /\ sdk = "null"
    /\ sdkStarts = 0 /\ sigtermHandlers = 0 /\ warnings = 0
    /\ initCall = [c \in InitCalls |-> NotCalled]
    /\ proc = "running" /\ shutdown = "none"
    /\ InitPage

\* the requests go on while the process runs
serveRequests == proc = "running" /\ Next

NextBoot ==
    \/ \E c \in InitCalls : initOtel(c)
    \/ \E c \in InitCalls : importsLoaded(c)
    \/ sigterm
    \/ \E settled \in {"resolved", "rejected"} : shutdownSettles(settled)
    \/ serveRequests

SpecBoot == InitBoot /\ [][NextBoot]_vars

\* ------------------------------------------------------ the browser plugin

\* ENABLE_MANUAL_SPAN_HTTP_TRACING
ENABLE_MANUAL_SPAN_HTTP_TRACING == TRUE

\* tracer.startSpan(name, {kind}, parentCtx) in the browser: the n-th span of
\* the page, started by operation k
NewClientSpan(n, fn, k, kind, parentCtx) ==
    [fn |-> fn, op |-> k, kind |-> kind, recording |-> TRUE,
     caller |-> 0, outcome |-> NoOutcome, result |-> NoOutcome,
     traceId |-> IF isSpanContextValid(parentCtx) THEN parentCtx.traceId
                 ELSE GenId(16 + n, TraceIdLen),
     spanId |-> GenId(16 + n, SpanIdLen),
     parentSpanId |-> IF isSpanContextValid(parentCtx) THEN parentCtx.spanId ELSE NoParent,
     status |-> "UNSET", message |-> "", exceptions |-> 0, attrs |-> {},
     exported |-> "none", post |-> 0,
     ends |-> 0, late |-> 0]

\* `null` where a span could be
NoSpan == [fn |-> "none"]

\* a body that rethrows what it caught
initSettled_rethrow(succeeded) ==
    [tracer |-> IF succeeded THEN "tracer" ELSE "null",
     errors |-> IF succeeded THEN 0 ELSE 1,
     rejections |-> IF succeeded THEN 0 ELSE 1]

\* the async body of initOtelClient from its first await on: the tracer is
\* set when the imports and the provider's registration succeeded; when they
\* threw, the failure is written to the console and the promise fulfils
initSettled(succeeded) ==
    [tracer |-> IF succeeded THEN "tracer" ELSE "null",
     errors |-> IF succeeded THEN 0 ELSE 1,
     rejections |-> 0]

\* initOtelClient(serviceName) is called: by the plugin's setup, and again
\* when the setup runs again. `if (initialized || initPromise) return
\* initPromise`, otherwise the init promise is made and its body starts
initOtelClient ==
    /\ clientLog.calls < MaxClientInits
    /\ IF clientInitialized \/ initPromise # "null"
       THEN /\ clientLog' = [clientLog EXCEPT !.calls = @ + 1]
            /\ UNCHANGED initPromise
       ELSE /\ clientLog' = [clientLog EXCEPT !.calls = @ + 1, !.runs = @ + 1]
            /\ initPromise' = "pending"
    /\ UNCHANGED <<clientInitialized, tracer, ops, cspans, xhrs>>
    /\ UNCHANGED <<serverVars, bootVars, wire>>

\* the body of the init promise ends
initSettles(succeeded) ==
    /\ initPromise = "pending"
    /\ LET settled == initSettled(succeeded)
       IN  /\ initPromise' = IF settled.rejections = 0 THEN "settled" ELSE "rejected"
           /\ tracer' = settled.tracer
           /\ clientLog' = [clientLog EXCEPT !.errors = @ + settled.errors,
                                             !.rejections = @ + settled.rejections]
    /\ clientInitialized' = TRUE
    /\ UNCHANGED <<ops, cspans, xhrs>>
    /\ UNCHANGED <<serverVars, bootVars, wire>>

\* $otel.createSpan(name, fn) is called (no span is active) and reaches
\* `await initPromise`
clientCreateSpan(k) ==
    /\ initPromise # "null"
    /\ ops[k].pc = "idle"
    /\ ops' = [ops EXCEPT ![k].pc = "waiting"]
    /\ UNCHANGED <<clientInitialized, initPromise, tracer, cspans, xhrs, clientLog>>
    /\ UNCHANGED <<serverVars, bootVars, wire>>

\* createSpan spans that were started and have not ended
OpenOpSpans == {n \in 1..Len(cspans) : cspans[n].fn = "createSpan" /\ cspans[n].ends = 0}

\* a context manager that keeps the context of the last context.with() until
\* the span set in it ends
clientActive_last(k) ==
    IF OpenOpSpans = {} THEN ROOT_CONTEXT
    ELSE spanContext(cspans[CHOOSE n \in OpenOpSpans : \A m \in OpenOpSpans : m <= n])

\* context.active() in createSpan after `await initPromise`, for a call made
\* while no span was active: the continuation of a native await runs outside
\* every context.with() of the ZoneContextManager
clientActive(k) == ROOT_CONTEXT

\* createSpan after `await initPromise`, up to the call of fn: without a
\* tracer fn gets no span and the global $fetch / fetch, with one the span is
\* started and fn gets the helpers made for it. A rejected init promise
\* rejects createSpan before fn is called.
clientSpanStarts(k) ==
    /\ ops[k].pc = "waiting"
    /\ initPromise \in {"settled", "rejected"}
    /\ IF initPromise = "rejected"
       THEN /\ ops' = [ops EXCEPT ![k].pc = "done", ![k].result = thrown(Boom)]
            /\ UNCHANGED cspans
       ELSE IF tracer = "null"
       THEN /\ ops' = [ops EXCEPT ![k].pc = "running", ![k].calls = @ + 1]
            /\ UNCHANGED cspans
       ELSE LET n == Len(cspans) + 1
            IN  /\ cspans' = Append(cspans,
                                    NewClientSpan(n, "createSpan", k, "CLIENT",
                                                  clientActive(k)))
                /\ ops' = [ops EXCEPT ![k].pc = "running", ![k].span = n,
                                      ![k].calls = @ + 1]
    /\ UNCHANGED <<clientInitialized, initPromise, tracer, xhrs, clientLog>>
    /\ UNCHANGED <<serverVars, bootVars, wire>>

\* helpers that read the span of the operation that started last
helperSpan_latest(k) ==
    CHOOSE n \in 1..Len(cspans) :
        /\ cspans[n].fn = "createSpan"
        /\ \A m \in 1..Len(cspans) : cspans[m].fn = "createSpan" => m <= n

\* the span whose header and context the helpers of operation k were made
\* with: createXhrFetch(traceParent, spanCtx), createXhrNativeFetch(traceParent,
\* spanCtx), createChildSpanFactory(spanCtx)
helperSpan(k) == ops[k].span

\* the span of the callback of operation k that is running innermost: of the
\* innermost childSpan callback that has a span, of createSpan otherwise
RECURSIVE callerSpan(_, _)
callerSpan(k, frames) ==
    IF frames = <<>> THEN ops[k].span
    ELSE IF frames[Len(frames)] # 0 THEN frames[Len(frames)]
    ELSE callerSpan(k, SubSeq(frames, 1, Len(frames) - 1))

\* xhr.responseText: what it is and what JSON.parse makes of it (a
\* SyntaxError is thrown for a text that is not JSON)
JsonText == [raw |-> "{\"id\":1}", parsed |-> "object {id: 1}"]
PlainText == [raw |-> "pong", parsed |-> "SyntaxError"]
\* no response received
NoText == [raw |-> "", parsed |-> "SyntaxError"]
ResponseTexts == {JsonText, PlainText}
JSONparse(text) == text.parsed

\* what a transport promise settles with
NoValue == [kind |-> "none", status |-> "none", body |-> "none"]
ParsedBody(text) == [kind |-> "json", status |-> "none", body |-> JSONparse(text)]
RawBody(text) == [kind |-> "text", status |-> "none", body |-> text.raw]
Response(status, text) == [kind |-> "Response", status |-> status, body |-> text.raw]
HttpError(status) == [kind |-> "Error", status |-> status, body |-> "none"]
NetworkError == [kind |-> "Error", status |-> "Network error", body |-> "none"]

\* try { resolve(JSON.parse(xhr.responseText)) } catch { resolve(xhr.responseText) }
decodeBody(text) ==
    IF JSONparse(text) # "SyntaxError" THEN ParsedBody(text) ELSE RawBody(text)

Is2xx(status) == status \in {"200", "204"}

\* a transport whose promise resolves whatever the status is
loadResult_alwaysResolve(helper, status, text) ==
    [promise |-> "resolved",
     value |-> IF helper = "$fetch" THEN decodeBody(text) ELSE Response(status, text)]

\* how xhr.onload settles the promise of the helper: $fetch resolves with the
\* decoded body on a 2xx status and rejects on any other, fetch resolves
\* with a Response that carries the status and the text whatever the status
loadResult(helper, status, text) ==
    IF helper = "$fetch"
    THEN IF Is2xx(status) THEN [promise |-> "resolved", value |-> decodeBody(text)]
         ELSE [promise |-> "rejected", value |-> HttpError(status)]
    ELSE [promise |-> "resolved", value |-> Response(status, text)]

\* A header name as the caller spelled it, with its lowercase spelling.
HeaderName(form, lower) == [form |-> form, lower |-> lower]
toLowerCase(name) == HeaderName(name.lower, name.lower)

\* the headers a caller passes in options.headers / init.headers, as
\* Object.entries lists them: <<name, value>> pairs
ForgedTraceParent == traceParent(TraceB, SpanB)
TextPlain == Text(<<"t", "e", "x", "t", "/", "p", "l", "a", "i", "n">>)
ApplicationJson ==
    Text(<<"a", "p", "p", "l", "i", "c", "a", "t", "i", "o", "n", "/", "j", "s", "o", "n">>)
CustomValue == Text(<<"v", "1">>)
CallerHeaders ==
    { <<>>,
      << <<HeaderName("TraceParent", "traceparent"), ForgedTraceParent>>,
         <<HeaderName("X-Custom", "x-custom"), CustomValue>> >>,
      << <<HeaderName("Content-Type", "content-type"), TextPlain>> >> }

\* xhr.setRequestHeader(name, value) on the request's header list: names are
\* case-insensitive, and a value set for a name that is already in the list
\* is combined with the values set before (sent as "v1, v2")
setRequestHeader(headers, name, value) ==
    IF name.lower \in DOMAIN headers
    THEN [headers EXCEPT ![name.lower] = Append(@, value)]
    ELSE [h \in DOMAIN headers \cup {name.lower} |->
             IF h = name.lower THEN <<value>> ELSE headers[h]]

NoRequestHeaders == [h \in {} |-> <<>>]

\* `key.toLowerCase() !== "traceparent"` decides which caller headers are set
isTraceParentKey(name) == toLowerCase(name).form = "traceparent"

RECURSIVE setCallerHeaders(_, _)
\* Object.entries(headers).forEach(([key, value]) => { if (...) xhr.setRequestHeader(key, value) })
setCallerHeaders(headers, entries) ==
    IF entries = <<>> THEN headers
    ELSE LET name == entries[1][1]
             value == entries[1][2]
         IN  setCallerHeaders(IF isTraceParentKey(name) THEN headers
                              ELSE setRequestHeader(headers, name, value),
                              Tail(entries))

\* the header list of the request when xhr.send() is called: traceparent
\* first, Content-Type: application/json for $fetch, then the caller's
requestHeaders(helper, computed, entries) ==
    LET h1 == setRequestHeader(NoRequestHeaders,
                               HeaderName("traceparent", "traceparent"), computed)
        h2 == IF helper = "$fetch"
              THEN setRequestHeader(h1, HeaderName("Content-Type", "content-type"),
                                    ApplicationJson)
              ELSE h1
    IN  setCallerHeaders(h2, entries)

\* a transport that always sends the header of the enclosing span
effectiveTraceParent_enclosing(header, httpSpan) == header

\* `effectiveTraceParent`: the header made of the HTTP span's ids when there
\* is one, the header of the enclosing span otherwise
effectiveTraceParent(header, httpSpan) ==
    IF httpSpan.fn # "none" THEN traceParent(httpSpan.traceId, httpSpan.spanId) ELSE header

\* the callback of operation k calls helpers.$fetch(url) or helpers.fetch(url):
\* createXhrFetch / createXhrNativeFetch up to xhr.send()
transportRequest(k, helper, entries) ==
    /\ ops[k].pc = "running"
    /\ ops[k].span # 0
    /\ Len(xhrs) < MaxXhr
    /\ LET enclosing == cspans[helperSpan(k)]
           header == traceParent(enclosing.traceId, enclosing.spanId)
           parentCtx == spanContext(enclosing)
           n == Len(cspans) + 1
           httpSpan == IF ENABLE_MANUAL_SPAN_HTTP_TRACING /\ tracer # "null"
                       THEN [NewClientSpan(n, "http", k, "CLIENT", parentCtx)
                                EXCEPT !.caller = callerSpan(k, ops[k].frames)]
                       ELSE NoSpan
           computed == effectiveTraceParent(header, httpSpan)
       IN  /\ cspans' = IF httpSpan.fn # "none" THEN Append(cspans, httpSpan) ELSE cspans
           /\ xhrs' = Append(xhrs, [op |-> k, helper |-> helper,
                                    traceparent |-> computed,
                                    given |-> entries,
                                    sent |-> requestHeaders(helper, computed, entries),
                                    httpSpan |-> IF httpSpan.fn # "none" THEN n ELSE 0,
                                    state |-> "sent", promise |-> "pending",
                                    value |-> NoValue,
                                    status |-> "none", text |-> NoText])
    /\ UNCHANGED <<clientInitialized, initPromise, tracer, ops, clientLog>>
    /\ UNCHANGED <<serverVars, bootVars, wire>>

\* what the HTTP span of request x becomes when `change` is applied to it
WithHttpSpan(x, change(_)) ==
    IF x.httpSpan = 0 THEN cspans
    ELSE [cspans EXCEPT ![x.httpSpan] = change(@)]

\* xhr.onload: a 2xx status ends the HTTP span OK and resolves; any other
\* status ends it ERROR and rejects ($fetch) or resolves with the response
\* (fetch)
xhrLoads(i, status, text) ==
    /\ i \in 1..Len(xhrs)
    /\ xhrs[i].state = "sent"
    /\ LET x == xhrs[i]
           onOk(span) == end(setStatus(setAttribute(span, "http.status_code"), "OK", ""))
           onBad(span) == end(setStatus(setAttribute(span, "http.status_code"), "ERROR", status))
           settled == loadResult(x.helper, status, text)
       IN  /\ cspans' = IF Is2xx(status) THEN WithHttpSpan(x, onOk) ELSE WithHttpSpan(x, onBad)
           /\ xhrs' = [xhrs EXCEPT ![i].state = "loaded",
                                   ![i].status = status,
                                   ![i].text = text,
                                   ![i].promise = settled.promise,
                                   ![i].value = settled.value]
    /\ UNCHANGED <<clientInitialized, initPromise, tracer, ops, clientLog>>
    /\ UNCHANGED <<serverVars, bootVars, wire>>

\* xhr.onerror: the HTTP span ends ERROR "Network error", the promise rejects
xhrFails(i) ==
    /\ i \in 1..Len(xhrs)
    /\ xhrs[i].state = "sent"
    /\ LET onError(span) == end(setStatus(span, "ERROR", "Network error"))
       IN  cspans' = WithHttpSpan(xhrs[i], onError)
    /\ xhrs' = [xhrs EXCEPT ![i].state = "failed", ![i].promise = "rejected",
                            ![i].value = NetworkError]
    /\ UNCHANGED <<clientInitialized, initPromise, tracer, ops, clientLog>>
    /\ UNCHANGED <<serverVars, bootVars, wire>>

\* the browser aborts request i (the user stops the page or leaves it): the
\* helpers set xhr.onload and xhr.onerror and nothing else, so no code of
\* theirs runs.  xhr.timeout is never set: a request does not time out.
xhrAborts(i) ==
    /\ i \in 1..Len(xhrs)
    /\ xhrs[i].state = "sent"
    /\ xhrs' = [xhrs EXCEPT ![i].state = "aborted"]
    /\ UNCHANGED <<clientInitialized, initPromise, tracer, ops, cspans, clientLog>>
    /\ UNCHANGED <<serverVars, bootVars, wire>>

\* requests the page made through the global $fetch / fetch
RECURSIVE PassedUpTo(_)
PassedUpTo(k) == IF k = 0 THEN 0 ELSE ops[k].passed + PassedUpTo(k - 1)
Passed == PassedUpTo(NumOps)

\* childSpan spans the page started
ChildSpans == {n \in 1..Len(cspans) : cspans[n].fn = "childSpan"}

\* the callback of operation k, which got no span, calls the global $fetch
\* or fetch it was handed as helpers
globalFetch(k) ==
    /\ ops[k].pc = "running"
    /\ ops[k].span = 0
    /\ Passed < MaxXhr
    /\ ops' = [ops EXCEPT ![k].passed = @ + 1]
    /\ UNCHANGED <<clientInitialized, initPromise, tracer, cspans, xhrs, clientLog>>
    /\ UNCHANGED <<serverVars, bootVars, wire>>

\* a callback of operation k calls helpers.childSpan(name, fn): up to the
\* call of fn. The helper of an operation that has a span starts the child
\* in the context the factory was made with; the helper of one that has none
\* calls fn with no span.
childSpan(k) ==
    /\ ops[k].pc = "running"
    /\ Cardinality(ChildSpans) < MaxChild
    /\ Len(ops[k].frames) < MaxChild
    /\ IF ops[k].span = 0 \/ tracer = "null"
       THEN /\ ops' = [ops EXCEPT ![k].frames = Append(@, 0)]
            /\ UNCHANGED cspans
       ELSE LET n == Len(cspans) + 1
                parentCtx == spanContext(cspans[helperSpan(k)])
            IN  /\ cspans' = Append(cspans,
                                    [NewClientSpan(n, "childSpan", k, "INTERNAL", parentCtx)
                                        EXCEPT !.caller = callerSpan(k, ops[k].frames)])
                /\ ops' = [ops EXCEPT ![k].frames = Append(@, n)]
    /\ UNCHANGED <<clientInitialized, initPromise, tracer, xhrs, clientLog>>
    /\ UNCHANGED <<serverVars, bootVars, wire>>

\* a wrapper with try and no catch
clientSpanSettled_noCatch(span, out) ==
    IF out.tag = "ok"
    THEN [span |-> end(setStatus(span, "OK", "")), result |-> out]
    ELSE [span |-> span, result |-> out]

\* try { result = await fn(span); setStatus(OK); end(); return result }
\* catch (error) { recordException(error); setStatus(ERROR, error.message);
\* end(); throw error }: the same in createSpan and in childSpan
clientSpanSettled(span, out) ==
    IF out.tag = "ok"
    THEN [span |-> end(setStatus(span, "OK", "")), result |-> out]
    ELSE [span |-> end(setStatus(recordException(span), "ERROR",
                                 out.payload.props.message)),
          result |-> thrown(out.payload)]

\* what a callback of the page can produce
ClientOutcomes == {ok(v) : v \in Values} \cup {thrown(e) : e \in Thrown}

\* the innermost childSpan callback of operation k settles: childSpan from
\* there to its return or throw
childSettles(k, out) ==
    /\ ops[k].pc = "running"
    /\ ops[k].frames # <<>>
    /\ out \in ClientOutcomes
    /\ LET n == ops[k].frames[Len(ops[k].frames)]
           settled == clientSpanSettled(cspans[n], out)
       IN  cspans' = IF n = 0 THEN cspans
                     ELSE [cspans EXCEPT ![n] = [settled.span EXCEPT !.outcome = out,
                                                                   !.result = settled.result]]
    /\ ops' = [ops EXCEPT ![k].frames = SubSeq(@, 1, Len(@) - 1)]
    /\ UNCHANGED <<clientInitialized, initPromise, tracer, xhrs, clientLog>>
    /\ UNCHANGED <<serverVars, bootVars, wire>>

\* createSpan from the settling of fn to its return or throw: with a span the
\* wrapper finalizes it, without one `return await fn(null, noopHelpers)`
clientSpanSettles(k, out) ==
    /\ ops[k].pc = "running"
    /\ ops[k].frames = <<>>
    /\ out \in ClientOutcomes
    /\ LET n == ops[k].span
       IN  IF n = 0
           THEN /\ UNCHANGED cspans
                /\ ops' = [ops EXCEPT ![k].pc = "done", ![k].outcome = out,
                                      ![k].result = out]
           ELSE LET settled == clientSpanSettled(cspans[n], out)
                IN  /\ cspans' = [cspans EXCEPT ![n] = settled.span]
                    /\ ops' = [ops EXCEPT ![k].pc = "done", ![k].outcome = out,
                                          ![k].result = settled.result]
    /\ UNCHANGED <<clientInitialized, initPromise, tracer, xhrs, clientLog>>
    /\ UNCHANGED <<serverVars, bootVars, wire>>

\* a page that loads while the server is up and serves no request
InitClient ==
    /\ api = "result"
    /\ reqHeader = [r \in Reqs |-> Missing]
    /\ phase = [r \in Reqs |-> "absent"]
    /\ InitRequests
    /\ InitStarted
    /\ InitPage

NextClient ==
    \/ initOtelClient
    \/ \E succeeded \in BOOLEAN : initSettles(succeeded)
    \/ \E k \in Ops : clientCreateSpan(k)
    \/ \E k \in Ops : clientSpanStarts(k)
    \/ \E k \in Ops, helper \in {"$fetch", "fetch"}, entries \in CallerHeaders :
            transportRequest(k, helper, entries)
    \/ \E i \in 1..MaxXhr, status \in {"200", "404"}, text \in ResponseTexts :
            xhrLoads(i, status, text)
    \/ \E i \in 1..MaxXhr : xhrFails(i)
    \/ \E k \in Ops, out \in ClientOutcomes : clientSpanSettles(k, out)

\* the transport helpers with every kind of caller header and response
SpecClient == InitClient /\ [][NextClient]_vars

\* the callbacks of the page: requests without caller headers, childSpan
\* calls, the helpers of an operation that got no span
NextPage ==
    \/ initOtelClient
    \/ \E succeeded \in BOOLEAN : initSettles(succeeded)
    \/ \E k \in Ops : clientCreateSpan(k)
    \/ \E k \in Ops : clientSpanStarts(k)
    \/ \E k \in Ops : transportRequest(k, "$fetch", <<>>)
    \/ \E i \in 1..MaxXhr : xhrLoads(i, "200", JsonText)
    \/ \E k \in Ops : globalFetch(k)
    \/ \E k \in Ops : childSpan(k)
    \/ \E k \in Ops, out \in ClientOutcomes : childSettles(k, out)
    \/ \E k \in Ops, out \in ClientOutcomes : clientSpanSettles(k, out)

SpecPage == InitClient /\ [][NextPage]_vars

\* ------------------------------------------------------- pages at rest

\* a page whose tracing failed to start and whose operations are over
InitPageOver ==
    /\ clientInitialized = TRUE
    /\ initPromise = "settled"
    /\ tracer = "null"
    /\ ops = [k \in Ops |-> [NoOp EXCEPT !.pc = "done", !.calls = 1,
                                         !.outcome = ok("v1"), !.result = ok("v1")]]
    /\ cspans = <<>>
    /\ xhrs = <<>>
    /\ clientLog = [calls |-> MaxClientInits, runs |-> 1, errors |-> 1, rejections |-> 0]
    /\ wire = NoWire

\* a page whose tracing has started and that has called createSpan for
\* none of its operations yet
InitPageTraced ==
    /\ clientInitialized = TRUE
    /\ initPromise = "settled"
    /\ tracer = "tracer"
    /\ ops = [k \in Ops |-> NoOp]
    /\ cspans = <<>>
    /\ xhrs = <<>>
    /\ clientLog = [calls |-> MaxClientInits, runs |-> 1, errors |-> 0, rejections |-> 0]
    /\ wire = NoWire

\* ------------------------------------------------------- parallel branches

\* request-scoped spans forked by the work of a handler
Forks == {n \in 1..Len(spans) : spans[n].fn = "request" /\ spans[n].caller # 0}

\* the work of the handler of request r starts a branch that calls
\* createSpanFromRequest(event, ...) and does not await it before it starts
\* the next: the call up to `await fn(span)`.  The branch runs in its own
\* async context, so its span is not the ambient one of the handler's work.
forkSpanFromRequest(r) ==
    /\ phase[r] = "handler"
    /\ Len(stack[r]) = 1
    /\ Len(spans) < MaxSpans
    /\ Cardinality(Forks) < MaxForks
    /\ LET parentContext == IF api = "result" THEN getEventTraceContext(r)
                            ELSE extractTraceContext(r)
           n == Len(spans) + 1
           span == NewSpan(n, "request", r, parentContext, Top(r))
       IN  /\ spans' = Append(spans, span)
           /\ respHeaders' = setTraceHeaders(r, span)
           /\ eventCtx' = IF api = "result"
                          THEN [eventCtx EXCEPT ![r] = spanContext(span)]
                          ELSE eventCtx
    /\ UNCHANGED <<api, reqPath, reqHeader, phase, stack, ret, response>>
    /\ UNCHANGED <<bootVars, clientVars, wire>>

\* the work of a forked branch settles: createSpanFromRequest from there to
\* its return
forkSettles(n, out) ==
    /\ n \in Forks
    /\ spans[n].outcome = NoOutcome
    /\ out \in Outcomes("request")
    /\ spans' = [spans EXCEPT ![n] = [requestSpanSettled(spans[n], out)
                                         EXCEPT !.outcome = out,
                                                !.handed = requestSpanResult(spans[n], out)]]
    /\ UNCHANGED <<api, reqPath, reqHeader, phase, stack, ret, eventCtx, respHeaders, response>>
    /\ UNCHANGED <<bootVars, clientVars, wire>>

\* one request to the result version, whose handler forks branches
InitFork ==
    /\ api = "result"
    /\ reqHeader \in {[r \in Reqs |-> IF r = 1 THEN h ELSE Missing] :
                        h \in {Missing, traceParent(TraceA, SpanA)}}
    /\ phase = [r \in Reqs |-> IF r = 1 THEN "new" ELSE "absent"]
    /\ InitRequests
    /\ InitStarted
    /\ InitPageOver

NextFork ==
    \/ \E r \in Reqs : createSpanFromRequest(r)
    \/ \E r \in Reqs, out \in AllOutcomes : requestSettles(r, out)
    \/ \E r \in Reqs : forkSpanFromRequest(r)
    \/ \E n \in 1..MaxSpans, out \in AllOutcomes : forkSettles(n, out)

SpecFork == InitFork /\ [][NextFork]_vars

\* ------------------------------------------------- how a request can end

\* a traced page whose requests end in every way a request can end
NextTransport ==
    \/ \E k \in Ops : clientCreateSpan(k)
    \/ \E k \in Ops : clientSpanStarts(k)
    \/ \E k \in Ops, helper \in {"$fetch", "fetch"} : transportRequest(k, helper, <<>>)
    \/ \E i \in 1..MaxXhr, status \in {"200", "404"}, text \in ResponseTexts :
            xhrLoads(i, status, text)
    \/ \E i \in 1..MaxXhr : xhrFails(i)
    \/ \E i \in 1..MaxXhr : xhrAborts(i)
    \/ \E k \in Ops, out \in ClientOutcomes : clientSpanSettles(k, out)

InitTransport ==
    /\ api = "result"
    /\ reqHeader = [r \in Reqs |-> Missing]
    /\ phase = [r \in Reqs |-> "absent"]
    /\ InitRequests
    /\ InitStarted
    /\ InitPageTraced

SpecTransport == InitTransport /\ [][NextTransport]_vars

\* ------------------------------------------------------------ the exporter

\* the exporter the NodeSDK was given sends a finished span to the collector:
\* the export succeeds or fails some time after end() has returned, and a
\* failure goes to the SDK's error handler
exportSettles(n, succeeded) ==
    /\ n \in 1..Len(spans)
    /\ spans[n].exported = "queued"
    /\ spans' = [spans EXCEPT ![n].exported = IF succeeded THEN "ok" ELSE "failed"]
    /\ UNCHANGED <<api, reqPath, reqHeader, phase, stack, ret, eventCtx, respHeaders, response>>
    /\ UNCHANGED <<bootVars, clientVars, wire>>

\* one request, with or without a traceparent header, to either version
InitExport ==
    /\ api \in {"result", "throwing"}
    /\ reqHeader \in {[r \in Reqs |-> IF r = 1 THEN h ELSE Missing] :
                        h \in {Missing, traceParent(TraceA, SpanA)}}
    /\ phase = [r \in Reqs |-> IF r = 1 THEN "new" ELSE "absent"]
    /\ InitRequests
    /\ InitStarted
    /\ InitPageOver

\* a traced handler and the nested work it runs, while the exporter sends
\* the spans that have ended
NextExport ==
    \/ \E r \in Reqs : createSpanFromRequest(r)
    \/ \E r \in Reqs, out \in AllOutcomes : requestSettles(r, out)
    \/ \E r \in Reqs : createSpan(r)
    \/ \E r \in Reqs, out \in AllOutcomes : internalSettles(r, out)
    \/ \E n \in 1..MaxSpans, succeeded \in BOOLEAN : exportSettles(n, succeeded)

SpecExport == InitExport /\ [][NextExport]_vars

\* ------------------------------------------------- server and browser spans

\* either the server handles requests while no page is traced, or a page is
\* traced while the server handles none
InitSpans ==
    /\ InitRequests
    /\ InitStarted
    /\ \/ /\ api \in {"result", "throwing"}
          /\ InitConcurrent \/ InitSingle
          /\ InitPageOver
       \/ /\ api = "result"
          /\ reqHeader = [r \in Reqs |-> Missing]
          /\ phase = [r \in Reqs |-> "absent"]
          /\ InitPageTraced

\* every wrapper of the server and of the browser; the page makes one
\* operation
NextSpans ==
    \/ Next
    \/ clientCreateSpan(1)
    \/ clientSpanStarts(1)
    \/ \E helper \in {"$fetch", "fetch"} : transportRequest(1, helper, <<>>)
    \/ \E i \in 1..MaxXhr, status \in {"200", "404"} : xhrLoads(i, status, JsonText)
    \/ \E i \in 1..MaxXhr : xhrFails(i)
    \/ childSpan(1)
    \/ \E out \in ClientOutcomes : childSettles(1, out)
    \/ \E out \in ClientOutcomes : clientSpanSettles(1, out)

SpecSpans == InitSpans /\ [][NextSpans]_vars

\* one request handled by the server while no page is traced, or one
\* operation of a traced page while the server handles no request
InitLive ==
    /\ InitRequests
    /\ InitStarted
    /\ \/ /\ api \in {"result", "throwing"}
          /\ reqHeader \in {[r \in Reqs |-> IF r = 1 THEN h ELSE Missing] :
                              h \in {Missing, traceParent(TraceA, SpanA)}}
          /\ phase = [r \in Reqs |-> IF r = 1 THEN "new" ELSE "absent"]
          /\ InitPageOver
       \/ /\ api = "result"
          /\ reqHeader = [r \in Reqs |-> Missing]
          /\ phase = [r \in Reqs |-> "absent"]
          /\ InitPageTraced

\* the wrappers of the server and of the browser when every piece of work
\* that is running settles sooner or later and every request that was sent
\* loads or fails: a step is taken as long as one can be
SpecLive == InitLive /\ [][NextSpans]_vars /\ WF_vars(NextSpans)

\* ----------------------------------------------- the example middleware

RootPath == <<"/">>
ApiBarePath == <<"/", "a", "p", "i">>
ApiPrefix == <<"/", "a", "p", "i", "/">>
OtelProxyPath ==
    <<"/", "a", "p", "i", "/", "o", "t", "e", "l", "-", "p", "r", "o", "x", "y">>
OtelProxyQueryPath == OtelProxyPath \o <<"?", "x">>
\* event.path of the requests that arrive: path and query string
Paths == {RootPath, ApiBarePath, ApiPrefix, TestTracePath, OtelProxyPath, OtelProxyQueryPath}

\* String.prototype.startsWith
startsWith(text, prefix) ==
    /\ Len(text) >= Len(prefix)
    /\ SubSeq(text, 1, Len(prefix)) = prefix

\* a filter that lets every /api/ path through to the traced middleware
skipsTracing_prefixOnly(path) == ~startsWith(path, ApiPrefix)

\* the condition under which the example middleware returns at once
skipsTracing(path) == ~startsWith(path, ApiPrefix) \/ path = OtelProxyPath

\* the route a path is matched against: the path without its query string
pathname(path) ==
    IF \E i \in 1..Len(path) : path[i] = "?"
    THEN SubSeq(path, 1, (CHOOSE i \in 1..Len(path) :
                            path[i] = "?" /\ \A j \in 1..(i - 1) : path[j] # "?") - 1)
    ELSE path

\* the default event handler of the example middleware: it runs first for
\* every request, returns nothing for the paths it skips and calls the
\* traced middleware for the others
exampleMiddleware(r) ==
    /\ phase[r] = "new"
    /\ IF skipsTracing(reqPath[r])
       THEN /\ phase' = [phase EXCEPT ![r] = "mwDone"]
            /\ UNCHANGED <<api, reqPath, reqHeader, stack, ret, spans, eventCtx, respHeaders,
                           response>>
            /\ UNCHANGED <<bootVars, clientVars, wire>>
       ELSE defineTracedMiddleware(r)

\* the handler of /api/test-trace, once the middleware has let the request
\* through
testTraceHandler(r) ==
    /\ phase[r] = "mwDone"
    /\ pathname(reqPath[r]) = TestTracePath
    /\ createSpanFromRequest(r)

\* what the collector answers to the forwarded export
CollectorStatuses == {"200", "401"}

\* the handler of /api/otel-proxy: it forwards the request's body to the
\* collector and starts no span
otelProxyHandler(r, body, status) ==
    /\ phase[r] = "mwDone"
    /\ pathname(reqPath[r]) = OtelProxyPath
    /\ body \in {"", "spans"}
    /\ status \in CollectorStatuses
    /\ response' = [response EXCEPT ![r] =
            IF config.axiomToken = "" \/ config.axiomDataset = ""
            THEN createError("500", "OTEL proxy not configured", NoData)
            ELSE IF body = ""
            THEN createError("400", "No trace data provided", NoData)
            ELSE IF status # "200"
            THEN createError(status, "Failed to forward traces", NoData)
            ELSE [kind |-> "value", value |-> "success"]]
    /\ phase' = [phase EXCEPT ![r] = "responded"]
    /\ UNCHANGED <<api, reqPath, reqHeader, stack, ret, spans, eventCtx, respHeaders>>
    /\ UNCHANGED <<bootVars, clientVars, wire>>

\* requests to any of the paths arrive at a server that runs the example
\* middleware in front of its routes
InitMiddleware ==
    /\ api = "result"
    /\ reqHeader \in {[r \in Reqs |-> IF r = 1 THEN h ELSE traceParent(TraceB, SpanB)] :
                        h \in {Missing, traceParent(TraceA, SpanA)}}
    /\ reqPath \in [Reqs -> Paths]
    /\ phase = [r \in Reqs |-> "new"]
    /\ InitUntouched
    /\ InitStarted
    /\ InitPageOver

NextMiddleware ==
    \/ \E r \in Reqs : exampleMiddleware(r)
    \/ \E r \in Reqs, out \in AllOutcomes : middlewareSettles(r, out)
    \/ \E r \in Reqs : testTraceHandler(r)
    \/ \E r \in Reqs, out \in AllOutcomes : requestSettles(r, out)
    \/ \E r \in Reqs, body \in {"", "spans"}, status \in CollectorStatuses :
          otelProxyHandler(r, body, status)

SpecMiddleware == InitMiddleware /\ [][NextMiddleware]_vars

\* ------------------------------------------- spans on their way out

ENABLE_FETCH_AUTO_INSTRUMENTATION == TRUE
\* new OTLPTraceExporter({ url: "/api/otel-proxy" })
ExporterUrl == OtelProxyPath
\* ignoreUrls: [/\/api\/otel-proxy/]
IgnoreUrls == {OtelProxyPath}

\* RegExp.prototype.test for a pattern of literal characters: the pattern
\* occurs somewhere in the text
contains(text, pattern) ==
    \E i \in 1..(Len(text) - Len(pattern) + 1) :
        SubSeq(text, i, i + Len(pattern) - 1) = pattern

\* a fetch instrumentation that was given no ignoreUrls
ignoredUrl_none(url) == FALSE

\* the fetch instrumentation leaves a request to this url alone
ignoredUrl(url) == \E pattern \in IgnoreUrls : contains(url, pattern)

\* the most spans a page gets from its operations
MaxPageSpans == NumOps + MaxXhr + MaxChild

\* the SimpleSpanProcessor hands an ended span to the exporter, which POSTs
\* it to ExporterUrl, by navigator.sendBeacon or by the global fetch as the
\* build has it; a fetch the instrumentation does not ignore gets a span of
\* its own and a traceparent header. r: the request as the server sees it
exporterPosts(n, r, via) ==
    /\ n \in 1..Len(cspans)
    /\ cspans[n].exported = "queued"
    /\ phase[r] = "absent"
    /\ via \in {"sendBeacon", "fetch"}
    /\ LET instrumented == /\ via = "fetch"
                            /\ ENABLE_FETCH_AUTO_INSTRUMENTATION
                            /\ ~ignoredUrl(ExporterUrl)
                            /\ Len(cspans) < MaxPageSpans
           m == Len(cspans) + 1
           span == [NewClientSpan(m, "fetch", cspans[n].op, "CLIENT", ROOT_CONTEXT)
                       EXCEPT !.caller = n]
           sent == [cspans EXCEPT ![n].exported = "posting", ![n].post = r]
       IN  /\ cspans' = IF instrumented THEN Append(sent, span) ELSE sent
           /\ reqHeader' = [reqHeader EXCEPT ![r] =
                                IF instrumented THEN traceParent(span.traceId, span.spanId)
                                ELSE Missing]
    /\ reqPath' = [reqPath EXCEPT ![r] = ExporterUrl]
    /\ phase' = [phase EXCEPT ![r] = "new"]
    /\ UNCHANGED <<api, stack, ret, spans, eventCtx, respHeaders, response>>
    /\ UNCHANGED <<clientInitialized, initPromise, tracer, ops, xhrs, clientLog>>
    /\ UNCHANGED <<bootVars, wire>>

\* the answer of the proxy reaches the exporter: the export of span n has
\* succeeded or failed, the span the instrumentation gave the request (if
\* any) ends, and the request is over
exportResponds(n) ==
    /\ n \in 1..Len(cspans)
    /\ cspans[n].exported = "posting"
    /\ phase[cspans[n].post] = "responded"
    /\ LET r == cspans[n].post
       IN  /\ cspans' = [m \in DOMAIN cspans |->
                 IF m = n
                 THEN [cspans[n] EXCEPT !.exported = IF response[r].kind = "value" THEN "ok"
                                                     ELSE "failed"]
                 ELSE IF cspans[m].fn = "fetch" /\ cspans[m].caller = n /\ cspans[m].ends = 0
                 THEN end(cspans[m])
                 ELSE cspans[m]]
           /\ phase' = [phase EXCEPT ![r] = "absent"]
           /\ response' = [response EXCEPT ![r] = NoResponse]
           /\ eventCtx' = [eventCtx EXCEPT ![r] = ROOT_CONTEXT]
           /\ respHeaders' = [respHeaders EXCEPT ![r] = NoHeaders]
           /\ stack' = [stack EXCEPT ![r] = <<>>]
           /\ ret' = [ret EXCEPT ![r] = NoOutcome]
    /\ UNCHANGED <<api, reqPath, reqHeader, spans>>
    /\ UNCHANGED <<clientInitialized, initPromise, tracer, ops, xhrs, clientLog>>
    /\ UNCHANGED <<bootVars, wire>>

\* a traced page and a server behind the example middleware: the first
\* request is one to /api/test-trace or has not arrived, the second has not
\* arrived
InitProxy ==
    /\ api = "result"
    /\ reqHeader = [r \in Reqs |-> Missing]
    /\ reqPath = [r \in Reqs |-> IF r = 1 THEN TestTracePath ELSE ExporterUrl]
    /\ phase \in {[r \in Reqs |-> IF r = 1 THEN p ELSE "absent"] : p \in {"new", "absent"}}
    /\ InitUntouched
    /\ InitStarted
    /\ InitPageTraced

\* the application's spans on both sides, and the exporters' traffic
NextProxy ==
    \/ clientCreateSpan(1)
    \/ clientSpanStarts(1)
    \/ childSpan(1)
    \/ \E out \in ClientOutcomes : childSettles(1, out)
    \/ \E out \in ClientOutcomes : clientSpanSettles(1, out)
    \/ \E r \in Reqs : exampleMiddleware(r)
    \/ \E r \in Reqs, out \in AllOutcomes : middlewareSettles(r, out)
    \/ \E r \in Reqs : testTraceHandler(r)
    \/ \E r \in Reqs, out \in AllOutcomes : requestSettles(r, out)
    \/ \E n \in 1..MaxSpans, succeeded \in BOOLEAN : exportSettles(n, succeeded)
    \/ \E n \in 1..MaxPageSpans, r \in Reqs, via \in {"sendBeacon", "fetch"} :
          exporterPosts(n, r, via)
    \/ \E r \in Reqs, status \in CollectorStatuses : otelProxyHandler(r, "spans", status)
    \/ \E n \in 1..MaxPageSpans : exportResponds(n)

\* every step that can be taken is taken sooner or later: work settles,
\* requests are answered, exports are sent
SpecProxy == InitProxy /\ [][NextProxy]_vars /\ WF_vars(NextProxy)

\* ------------------------------------------- a header from browser to server

\* identifiers of valid form: len lowercase hex digits, not all of them 0
IdDigits == {"0", "1", "a", "f"}
ValidIds(len) ==
    {Cat(Rep(a, k), Rep(b, len - k)) : a \in IdDigits, b \in IdDigits, k \in {1, len - 1}}
        \ {Rep("0", len)}

\* the span context of a browser span whose ids are any of the valid ones
InitCodec ==
    /\ api = "result"
    /\ reqHeader = [r \in Reqs |-> Missing]
    /\ phase = [r \in Reqs |-> "absent"]
    /\ InitRequests
    /\ InitStarted
    /\ clientInitialized = TRUE /\ initPromise = "settled" /\ tracer = "tracer"
    /\ ops = [k \in Ops |-> NoOp]
    /\ cspans = <<>>
    /\ xhrs = <<>>
    /\ clientLog = [NoClientLog EXCEPT !.calls = 1, !.runs = 1]
    /\ \E t \in ValidIds(TraceIdLen), p \in ValidIds(SpanIdLen) :
          wire = [NoWire EXCEPT !.pc = "minted", !.traceId = t, !.spanId = p]

\* the browser builds the header from the span context
encodeHeader ==
    /\ wire.pc = "minted"
    /\ wire' = [wire EXCEPT !.pc = "encoded",
                            !.header = traceParent(wire.traceId, wire.spanId)]
    /\ UNCHANGED <<serverVars, bootVars, clientVars>>

\* the request that carries the header reaches the server
receiveHeader(r) ==
    /\ wire.pc = "encoded"
    /\ phase[r] = "absent"
    /\ reqHeader' = [reqHeader EXCEPT ![r] = wire.header]
    /\ phase' = [phase EXCEPT ![r] = "new"]
    /\ wire' = [wire EXCEPT !.pc = "received"]
    /\ UNCHANGED <<api, reqPath, stack, ret, spans, eventCtx, respHeaders, response>>
    /\ UNCHANGED <<bootVars, clientVars>>

\* the server extracts the trace context from the request's headers
decodeHeader(r) ==
    /\ wire.pc = "received"
    /\ phase[r] = "new"
    /\ wire' = [wire EXCEPT !.pc = "decoded", !.ctx = extractTraceContext(r)]
    /\ UNCHANGED <<serverVars, bootVars, clientVars>>

NextCodec ==
    \/ encodeHeader
    \/ \E r \in Reqs : receiveHeader(r)
    \/ \E r \in Reqs : decodeHeader(r)

SpecCodec == InitCodec /\ [][NextCodec]_vars

\* ------------------------------------------------------------ properties

SpanIds == 1..Len(spans)
Settled(n) == spans[n].outcome.tag # "none"
FirstOfRequest(n) == \A m \in 1..(n - 1) : spans[m].req # spans[n].req
HeaderIdsOf(n) == [traceId |-> spans[n].traceId, spanId |-> spans[n].spanId]

\* C1: every span a server-side wrapper started is ended exactly once however
\* its work settles (success, returned failure, thrown exception): never
\* twice, and once as soon as the work has settled.
C1_EndedExactlyOnce ==
    \A n \in SpanIds :
        /\ spans[n].ends <= 1
        /\ Settled(n) => spans[n].ends = 1

\* C2: when the work of createSpanFromRequest throws, the request span ends
\* with status ERROR and the request gets a handler-level error that carries
\* the span's traceId and spanId.
C2_ThrowFinalizedAndReraised ==
    \A n \in SpanIds :
        (spans[n].fn = "request" /\ spans[n].outcome.tag = "throw") =>
            /\ spans[n].status = "ERROR"
            /\ spans[n].ends = 1
            /\ response[spans[n].req].kind = "error"
            /\ response[spans[n].req].data.traceId = spans[n].traceId
            /\ response[spans[n].req].data.spanId = spans[n].spanId

\* C3: from the moment the work of createSpanFromRequest has started, the
\* X-Trace-Id and X-Span-Id response headers hold the ids of the request span,
\* and they keep holding them however the work settles or if it never does.
C3_HeadersBeforeWork ==
    \A n \in SpanIds :
        spans[n].fn = "request" => respHeaders[spans[n].req] = HeaderIdsOf(n)

\* two requests: the work of one threw, the work of the other is still running
\* with a nested span open, and both have their headers
C3_Witness ==
    \E n, m \in SpanIds :
        /\ spans[n].fn = "request" /\ spans[n].outcome.tag = "throw"
        /\ respHeaders[spans[n].req] = HeaderIdsOf(n)
        /\ spans[m].fn = "request" /\ ~Settled(m) /\ Len(stack[spans[m].req]) = 2
        /\ respHeaders[spans[m].req] = HeaderIdsOf(m)

\* C4: for a request with a valid traceparent header and no context stored by
\* a middleware, the request span has the header's traceId and its parent is
\* the header's spanId.
C4_ContinuesFrontendTrace ==
    \A n \in SpanIds : \A h \in ValidHeaderIds :
        ( /\ spans[n].fn = "request"
          /\ FirstOfRequest(n)
          /\ reqHeader[spans[n].req] = h[1] )
        => (spans[n].traceId = h[2] /\ spans[n].parentSpanId = h[3])

C4_Witness ==
    \E n \in SpanIds :
        /\ spans[n].fn = "request" /\ FirstOfRequest(n)
        /\ reqHeader[spans[n].req] = traceParent(TraceA, SpanA)
        /\ spans[n].traceId = TraceA /\ spans[n].parentSpanId = SpanA
        /\ Settled(n)

\* C5: for a request whose traceparent header is missing or malformed, the
\* first span of the request is the root of a fresh trace (no parent, a trace
\* id minted by the id generator), and the handler runs as usual.
C5_MalformedStartsRoot ==
    \A n \in SpanIds :
        ( /\ FirstOfRequest(n)
          /\ reqHeader[spans[n].req] \in {Missing} \cup MalformedHeaders )
        => ( /\ spans[n].parentSpanId = NoParent
             /\ spans[n].traceId = GenId(n, TraceIdLen) )

\* a request with a malformed header whose handler ran and returned its value
C5_Witness ==
    \E n \in SpanIds :
        /\ reqHeader[spans[n].req] \in MalformedHeaders
        /\ spans[n].fn = "request" /\ spans[n].parentSpanId = NoParent
        /\ spans[n].outcome.tag = "ok"
        /\ response[spans[n].req].kind = "value"

\* C6: when the work of createSpanFromRequest returns a failure value, the
\* span ends with status ERROR and the failure's message, and the call
\* returns a failure that holds every property of the original failure value
\* plus the span's traceId and spanId.
C6_FailureKeptAndAnnotated ==
    \A n \in SpanIds :
        (api = "result" /\ spans[n].fn = "request" /\ spans[n].outcome.tag = "err") =>
            LET e == spans[n].outcome.payload
                got == ret[spans[n].req]
            IN  /\ spans[n].status = "ERROR"
                /\ spans[n].ends = 1
                /\ spans[n].message = e.props.message
                /\ got.tag = "err"
                /\ \A f \in DOMAIN e.props :
                        f \in DOMAIN got.payload.props /\ got.payload.props[f] = e.props[f]
                /\ got.payload.props.traceId = spans[n].traceId
                /\ got.payload.props.spanId = spans[n].spanId

\* a plain failure object: not an Error instance, with message and statusCode
IsHandlerErrorObject(e) ==
    ~e.isError /\ {"message", "statusCode"} \subseteq DOMAIN e.props

C8_ChildSharesTrace ==
    \A n \in SpanIds :
        spans[n].fn = "internal" =>
            \E p \in SpanIds :
                /\ spans[p].spanId = spans[n].parentSpanId
                /\ spans[p].traceId = spans[n].traceId
                /\ spans[p].spanId # spans[n].spanId

\* a createSpan nested in a createSpan, and a createSpan made after another
\* one of the same request has ended
C8_Witness ==
    \E n, m \in SpanIds :
        /\ spans[n].fn = "internal" /\ spans[m].fn = "internal"
        /\ spans[m].parentSpanId = spans[n].spanId
        /\ spans[m].traceId = spans[n].traceId
        /\ \E q \in SpanIds : q < n /\ spans[q].fn = "internal" /\ spans[q].ends = 1
                              /\ spans[q].req = spans[n].req

\* C9: every span made for a request that came with a valid traceparent
\* header carries that header's traceId, and so does the X-Trace-Id header of
\* its response, whatever another request does in between.
C9_NoCrossTalk ==
    \A r \in Reqs : \A h \in ValidHeaderIds :
        reqHeader[r] = h[1] =>
            /\ \A n \in SpanIds : spans[n].req = r => spans[n].traceId = h[2]
            /\ respHeaders[r] # NoHeaders => respHeaders[r].traceId = h[2]

\* requests with different headers whose spans were started in turn: a span
\* of the one, then of the other, then a nested and a background span
C9_Witness ==
    \E a, b \in Reqs :
        /\ reqHeader[a] = traceParent(TraceA, SpanA)
        /\ reqHeader[b] = traceParent(TraceB, SpanB)
        /\ \E n, m, k \in SpanIds :
            /\ n < m /\ m < k
            /\ spans[n].req = a /\ spans[m].req = b /\ spans[k].req = a
            /\ spans[k].fn \in {"internal", "background"}
            /\ spans[k].traceId = TraceA
        /\ respHeaders[b].traceId = TraceB

\* C10: a background span's trace and parent are those of the span that was
\* current when createSpanInBackground was called, whatever the caller did
\* afterwards.
C10_BackgroundSnapshot ==
    \A n \in SpanIds :
        spans[n].fn = "background" =>
            /\ spans[n].caller \in 1..(n - 1)
            /\ spans[n].parentSpanId = spans[spans[n].caller].spanId
            /\ spans[n].traceId = spans[spans[n].caller].traceId

\* a background span called inside a nested createSpan whose work is still
\* running after the caller's span has ended and the request was answered
C10_Witness ==
    \E n \in SpanIds :
        /\ spans[n].fn = "background" /\ ~Settled(n)
        /\ spans[spans[n].caller].fn = "internal"
        /\ spans[spans[n].caller].ends = 1
        /\ phase[spans[n].req] = "responded"
        /\ spans[n].parentSpanId = spans[spans[n].caller].spanId

\* C11: when the work handed to createSpanInBackground / fireAndForget
\* throws, the caller goes on untouched, no rejection is left unhandled, and
\* the background span is ended once with status ERROR.
C11_BackgroundThrowContained ==
    \A n \in SpanIds :
        (spans[n].fn = "background" /\ spans[n].outcome.tag = "throw") =>
            /\ spans[n].status = "ERROR"
            /\ spans[n].ends = 1
            /\ ~spans[n].unhandled

Range(seq) == {seq[i] : i \in DOMAIN seq}

\* what the wrappers of the result version do with a settled background span
C12_Finalized ==
    \A n \in SpanIds :
        (api = "result" /\ spans[n].fn = "background") =>
            /\ spans[n].outcome.tag = "err" =>
                  /\ spans[n].logged
                  /\ spans[n].status = "ERROR"
                  /\ spans[n].message = getErrorMessage(spans[n].outcome.payload)
                  /\ spans[n].exceptions = 1
                  /\ spans[n].ends = 1
            /\ spans[n].outcome.tag = "ok" =>
                  /\ ~spans[n].logged
                  /\ spans[n].status = "OK"
                  /\ spans[n].ends = 1

\* the step in which background work settles hands nothing to any caller
C12_NothingHandedBack ==
    (\E n \in SpanIds : spans[n].fn = "background" /\ ~Settled(n)
                        /\ spans'[n].outcome.tag # "none")
        => (ret' = ret /\ response' = response /\ stack' = stack /\ phase' = phase)

\* C12: background work that returns a failure is logged and its span ended
\* with status ERROR, work that returns a success ends its span with status
\* OK, and neither the value nor the failure reaches the caller.
C12_BackgroundResult == []C12_Finalized /\ [][C12_NothingHandedBack]_vars

\* background work that returned a failure while its caller was still
\* running, and whose caller then got the result of its own work
C12_Witness ==
    \E n \in SpanIds :
        /\ api = "result"
        /\ spans[n].fn = "background" /\ spans[n].outcome.tag = "err"
        /\ spans[n].logged /\ spans[n].status = "ERROR"
        /\ phase[spans[n].req] = "responded"
        /\ response[spans[n].req].kind = "value"

\* C13: createSpanInBackground returns without waiting: the caller never has
\* a background span among the spans it awaits, and a handler whose own work
\* is all that is left can complete whatever the background work does.
C13_HandlerNeverWaits ==
    /\ \A n \in SpanIds :
          spans[n].fn = "background" => \A r \in Reqs : n \notin Range(stack[r])
    /\ \A r \in Reqs :
          (phase[r] = "handler" /\ Len(stack[r]) = 1) =>
              ENABLED (\E out \in Outcomes("request") : requestSettles(r, out))

\* the handler's span has ended with OK and the response is produced while
\* the background span started by the handler itself is still open
C13_Witness ==
    \E n \in SpanIds :
        /\ spans[n].fn = "background" /\ ~Settled(n) /\ spans[n].ends = 0
        /\ spans[spans[n].caller].fn = "request"
        /\ spans[spans[n].caller].status = "OK"
        /\ spans[spans[n].caller].ends = 1
        /\ response[spans[n].req].kind = "value"

C15_MiddlewareShortCircuit ==
    \A m \in SpanIds :
        (spans[m].fn = "middleware" /\ spans[m].outcome.tag = "err") =>
            LET r == spans[m].req
                e == spans[m].outcome.payload
            IN  /\ spans[m].status = "ERROR" /\ spans[m].ends = 1
                /\ spans[m].message = e.props.message
                /\ phase[r] = "responded"
                /\ response[r].kind = "error"
                /\ response[r].statusCode = e.props.statusCode
                /\ response[r].statusMessage = e.props.message
                /\ response[r].data.error = e.props.message
                /\ response[r].data.traceId = spans[m].traceId
                /\ response[r].data.spanId = spans[m].spanId
                /\ \A n \in SpanIds : spans[n].req = r => spans[n].fn # "request"

\* a middleware that failed after it had started a nested span, while
\* another request went through its handler
C15_Witness ==
    \E m, k \in SpanIds :
        /\ spans[m].fn = "middleware" /\ spans[m].outcome.tag = "err"
        /\ spans[m].outcome.payload = ErrorInstance
        /\ response[spans[m].req].kind = "error"
        /\ response[spans[m].req].statusCode = "503"
        /\ spans[k].fn = "request" /\ spans[k].req # spans[m].req

\* C16: however often and however interleaved initOtel is called, a NodeSDK
\* is constructed and started at most once and at most one SIGTERM listener is
\* registered.
C16_InitOnce ==
    /\ sdkStarts <= 1
    /\ sigtermHandlers <= 1
    /\ (sdk = "started") <=> (sdkStarts = 1)

\* three calls have returned: the first started the SDK, the second was made
\* while the first was importing, the third after the SDK was started
C16_Witness ==
    /\ \A c \in InitCalls : initCall[c].pc = "returned"
    /\ initCall[1].result = "started"
    /\ initCall[2].result = "null"
    /\ initCall[3].result = "started"
    /\ sdkStarts = 1 /\ sigtermHandlers = 1

\* C17: with credentials configured, a call of initOtel made while an earlier
\* one is in progress returns only once the SDK is started, and returns it.
C17_ConcurrentInitWaits ==
    \A c \in InitCalls :
        (config = Credentials /\ initCall[c].pc = "returned") =>
            /\ initCall[c].result = "started"
            /\ sdk = "started"

\* the span n as a working SDK would have started it
Traced(n) ==
    [spans[n] EXCEPT !.recording = TRUE, !.traceId = GenId(n, TraceIdLen),
                     !.spanId = GenId(n, SpanIdLen)]

\* what the client of a request sees of its outcome, trace ids aside
Observable(resp) ==
    CASE resp.kind = "error" -> <<"error", resp.statusCode, resp.statusMessage, resp.data.error>>
      [] resp.kind = "value" -> <<"value", resp.value>>
      [] resp.kind = "unhandled" -> <<"unhandled", resp.error>>
      [] OTHER -> <<"none">>

\* C18: with the token or the dataset missing, initOtel warns (once), starts
\* no SDK and registers nothing, every call returns null, and a traced
\* middleware or handler answers the request with the value or the request
\* error it would answer with under a started SDK.
C18_DisabledWithoutCredentials ==
    (config.axiomToken = "" \/ config.axiomDataset = "") =>
        /\ sdk = "null" /\ sdkStarts = 0 /\ sigtermHandlers = 0
        /\ warnings = (IF initialized THEN 1 ELSE 0)
        /\ \A c \in InitCalls :
              /\ initCall[c].pc \in {"idle", "returned"}
              /\ initCall[c].pc = "returned" => initCall[c].result = "null"
        /\ \A n \in SpanIds :
              /\ ~spans[n].recording
              /\ (spans[n].fn = "request" /\ Settled(n)) =>
                    Observable(response[spans[n].req]) =
                        Observable(handlerResponse(
                            requestSpanResult(Traced(n), spans[n].outcome)))
              /\ (spans[n].fn = "middleware" /\ Settled(n)
                    /\ spans[n].outcome.tag # "ok") =>
                    Observable(response[spans[n].req]) =
                        Observable(middlewareResponse(Traced(n), spans[n].outcome))

\* without a dataset: two calls have returned null, and a request whose
\* handler returned a failure was answered with that failure's status
C18_Witness ==
    /\ config.axiomToken = "token" /\ config.axiomDataset = ""
    /\ initCall[1].pc = "returned" /\ initCall[2].pc = "returned"
    /\ initCall[2].result = "null"
    /\ warnings = 1
    /\ \E n \in SpanIds :
          /\ spans[n].fn = "request" /\ spans[n].outcome = err(NotFound)
          /\ response[spans[n].req].kind = "error"
          /\ response[spans[n].req].statusCode = "404"

\* C19: a process whose SDK was started exits after SIGTERM only when
\* sdk.shutdown() has settled, and has exited once it has settled, resolved or
\* rejected.
C19_ExitAfterFlush ==
    /\ (proc = "exited" /\ sdk = "started") => shutdown \in {"resolved", "rejected"}
    /\ shutdown \in {"resolved", "rejected"} => proc = "exited"
    /\ shutdown # "none" => sdk = "started"

\* the process has exited after a shutdown that failed
C19_Witness ==
    /\ sdk = "started"
    /\ shutdown = "rejected"
    /\ proc = "exited"

CSpanIds == 1..Len(cspans)

\* C20: every request sent through a transport helper of a createSpan
\* callback has its own CLIENT span, a child of the operation's span in the
\* same trace, and carries the header 00-<traceId>-<spanId>-01 of the
\* operation's traceId and the child's spanId, which the server's propagator
\* reads back as exactly those ids; the operation's own header is sent only
\* by a request that has no span of its own.
C20_HeaderOfHttpSpan ==
    \A i \in 1..Len(xhrs) :
        LET x == xhrs[i]
            enclosing == cspans[ops[x.op].span]
        IN  /\ tracer = "tracer"
            /\ x.httpSpan \in CSpanIds
            /\ LET child == cspans[x.httpSpan]
               IN  /\ child.kind = "CLIENT"
                   /\ child.parentSpanId = enclosing.spanId
                   /\ child.traceId = enclosing.traceId
                   /\ child.spanId # enclosing.spanId
                   /\ x.traceparent = traceParent(enclosing.traceId, child.spanId)
                   /\ parseTraceParent(x.traceparent) =
                         [traceId |-> enclosing.traceId, spanId |-> child.spanId]
            /\ x.traceparent # traceParent(enclosing.traceId, enclosing.spanId)

\* one operation has sent a request through $fetch, which has loaded, and
\* then one through fetch
C20_Witness ==
    /\ Len(xhrs) = 2
    /\ xhrs[1].helper = "$fetch" /\ xhrs[2].helper = "fetch"
    /\ xhrs[1].op = xhrs[2].op
    /\ cspans[xhrs[1].httpSpan].spanId # cspans[xhrs[2].httpSpan].spanId
    /\ cspans[xhrs[1].httpSpan].traceId = cspans[xhrs[2].httpSpan].traceId
    /\ xhrs[1].state = "loaded"

HttpSpanOf(i) == cspans[xhrs[i].httpSpan]

C22_OneTraceParent ==
    \A i \in 1..Len(xhrs) :
        LET x == xhrs[i]
        IN  /\ "traceparent" \in DOMAIN x.sent
            /\ x.sent["traceparent"] = <<x.traceparent>>
            /\ \A e \in 1..Len(x.given) :
                  x.given[e][1].lower # "traceparent" =>
                      /\ x.given[e][1].lower \in DOMAIN x.sent
                      /\ x.sent[x.given[e][1].lower] = <<x.given[e][2]>>

\* C23: the header the browser encodes for a traceId and a spanId of valid
\* form is decoded by the server to the context with that traceId and that
\* spanId.
C23_RoundTrip ==
    wire.pc = "decoded" =>
        /\ wire.ctx = [traceId |-> wire.traceId, spanId |-> wire.spanId]
        /\ isSpanContextValid(wire.ctx)

\* a decoded header whose ids are not the ones of the other checks: a trace
\* id that starts with a zero, a span id that is all f
C23_Witness ==
    /\ wire.pc = "decoded"
    /\ wire.traceId = Cat(Rep("0", 1), Rep("a", TraceIdLen - 1))
    /\ wire.spanId = Rep("f", SpanIdLen)
    /\ wire.ctx.traceId = wire.traceId

\* the traceparent values request i was sent with
SentTraceParents(i) == xhrs[i].sent["traceparent"]

\* C24: the span of a createSpan call made while no span is active is a root
\* span whose traceId is well formed and is the traceId of no span started
\* before it, and every request made through its helpers is sent with one
\* traceparent value, which the W3C parser accepts and which carries that
\* traceId.
C24_RootSpanFreshTrace ==
    \A k \in Ops :
        ops[k].span # 0 =>
            LET span == cspans[ops[k].span]
            IN  /\ span.parentSpanId = NoParent
                /\ TLen(span.traceId) = TraceIdLen
                /\ IsHex(span.traceId)
                /\ ~AllZero(span.traceId)
                /\ \A m \in 1..(ops[k].span - 1) : cspans[m].traceId # span.traceId
                /\ \A i \in 1..Len(xhrs) :
                        xhrs[i].op = k =>
                            /\ Len(SentTraceParents(i)) = 1
                            /\ isSpanContextValid(parseTraceParent(SentTraceParents(i)[1]))
                            /\ parseTraceParent(SentTraceParents(i)[1]).traceId = span.traceId

\* the second operation started its span while the first one's was open, and
\* sent a request
C24_Witness ==
    /\ ops[1].span # 0 /\ ops[2].span # 0
    /\ \E a \in Ops, b \in Ops :
          /\ ops[a].span < ops[b].span
          /\ cspans[ops[a].span].ends = 0
          /\ \E i \in 1..Len(xhrs) : xhrs[i].op = b

\* what the program can change on a span before it ends
Mutable(span) == <<span.status, span.message, span.exceptions, span.attrs>>

\* no wrapper called setStatus, setAttribute or recordException on a span
\* it had ended, and no span was ended twice
C25_NothingAfterEnd ==
    /\ \A n \in 1..Len(spans) : spans[n].late = 0 /\ spans[n].ends <= 1
    /\ \A n \in 1..Len(cspans) : cspans[n].late = 0 /\ cspans[n].ends <= 1

\* a span that has ended stays ended and as it was
C25_EndedIsTerminal ==
    /\ \A n \in 1..Len(spans) :
          spans[n].ends > 0 =>
              /\ spans'[n].ends = spans[n].ends
              /\ Mutable(spans'[n]) = Mutable(spans[n])
    /\ \A n \in 1..Len(cspans) :
          cspans[n].ends > 0 =>
              /\ cspans'[n].ends = cspans[n].ends
              /\ Mutable(cspans'[n]) = Mutable(cspans[n])

\* C25: in every server and browser wrapper every status change, attribute
\* write and exception record on a span comes before the wrapper's end() of
\* that span, and a span that has ended never changes again.
C25_MutationsPrecedeEnd == []C25_NothingAfterEnd /\ [][C25_EndedIsTerminal]_vars

\* spans of every browser wrapper have ended: createSpan with an exception
\* recorded, childSpan, an HTTP span with its status attribute
C25_Witness ==
    /\ \E n \in 1..Len(cspans) :
          cspans[n].fn = "createSpan" /\ cspans[n].ends = 1 /\ cspans[n].exceptions = 1
    /\ \E n \in 1..Len(cspans) : cspans[n].fn = "childSpan" /\ cspans[n].ends = 1
    /\ \E n \in 1..Len(cspans) :
          cspans[n].fn = "http" /\ cspans[n].ends = 1 /\ cspans[n].attrs # {}

\* the status the wrappers give a span whose work produced `out`: a throw in
\* the result version leaves the span as it was
C26_StatusFor(out) ==
    CASE out.tag = "ok" -> "OK"
      [] out.tag = "err" -> IF api = "result" THEN "ERROR" ELSE "OK"
      [] out.tag = "throw" -> IF api = "result" THEN "UNSET" ELSE "ERROR"
      [] OTHER -> "UNSET"

\* what the client of the request sees when the handler's work produced `out`
C26_ResponseFor(out) ==
    CASE out = ok("v1") -> <<"value", "v1">>
      [] out = ok("undefined") -> <<"value", "undefined">>
      [] out = err(NotFound) /\ api = "result" -> <<"error", "404", "not found", "not found">>
      [] out = err(ErrorInstance) /\ api = "result" ->
            <<"error", "503", "undefined", "undefined">>
      [] out = thrown(Boom) /\ api = "result" -> <<"unhandled", Boom>>
      [] out = thrown(ErrorInstance) /\ api = "result" -> <<"unhandled", ErrorInstance>>
      [] out = thrown(Boom) /\ api = "throwing" -> <<"error", "500", "boom", "boom">>
      [] out = thrown(ErrorInstance) /\ api = "throwing" ->
            <<"error", "503", "db down", "db down">>
      [] OTHER -> <<"none">>

\* C26: whatever the exporter did with the spans that have ended (nothing
\* yet, sent, failed), the response of the request, its trace headers and the
\* status of every span are the ones that the handler's and the nested
\* work's outcomes alone determine.
C26_ExporterUnobserved ==
    /\ \A n \in SpanIds :
          spans[n].status = C26_StatusFor(spans[n].outcome)
    /\ \A r \in Reqs : \A n \in SpanIds :
          (spans[n].req = r /\ spans[n].fn = "request") =>
              /\ respHeaders[r] = HeaderIdsOf(n)
              /\ Settled(n) <=> phase[r] = "responded"
              /\ Settled(n) => Observable(response[r]) = C26_ResponseFor(spans[n].outcome)

\* the export of a nested span failed before the handler settled, then the
\* handler answered with a value and its own span was exported
C26_Witness ==
    \E n \in SpanIds, m \in SpanIds :
        /\ spans[n].fn = "request" /\ spans[m].fn = "internal" /\ spans[m].req = spans[n].req
        /\ spans[m].exported = "failed"
        /\ spans[n].exported = "ok"
        /\ response[spans[n].req].kind = "value"

\* C27: every nested span is a child of the span of the work that started
\* it, the innermost span that is running: on the server a span of createSpan
\* is a child of the span on top of the request's stack, in the browser a
\* childSpan span or an HTTP span started in a childSpan callback is a child
\* of that childSpan's span.
C27_StackDiscipline ==
    /\ \A n \in SpanIds :
          (spans[n].fn = "internal" /\ spans[n].recording) =>
              /\ spans[n].parentSpanId = spans[spans[n].caller].spanId
              /\ spans[n].traceId = spans[spans[n].caller].traceId
    /\ \A n \in CSpanIds :
          cspans[n].fn \in {"childSpan", "http"} =>
              /\ cspans[n].parentSpanId = cspans[cspans[n].caller].spanId
              /\ cspans[n].traceId = cspans[cspans[n].caller].traceId

\* the traceIds sent with the requests of operation k
SentTraceIds(k) ==
    UNION {{parseTraceParent(xhrs[i].sent["traceparent"][v]).traceId :
                v \in 1..Len(xhrs[i].sent["traceparent"])} :
           i \in {j \in 1..Len(xhrs) : xhrs[j].op = k}}

\* C28: two createSpan operations of the page, neither called in the
\* other's callback, have spans with different traceIds; every span a helper
\* of an operation starts is in that operation's trace, and every request it
\* sends carries that operation's traceId and no other.
C28_IndependentTraces ==
    \A a \in Ops, b \in Ops :
        (a # b /\ ops[a].span # 0 /\ ops[b].span # 0) =>
            LET ta == cspans[ops[a].span].traceId
                tb == cspans[ops[b].span].traceId
            IN  /\ ta # tb
                /\ \A n \in CSpanIds : cspans[n].op = a => cspans[n].traceId = ta
                /\ SentTraceIds(a) \subseteq {ta}

\* both operations are running, and each has sent a request after the other
\* one's span was started
C28_Witness ==
    /\ \A k \in Ops : ops[k].pc = "running" /\ ops[k].span # 0
    /\ \A k \in Ops : \E i \in 1..Len(xhrs) :
          /\ xhrs[i].op = k
          /\ \A j \in Ops : ops[j].span < xhrs[i].httpSpan

\* client tracing failed to initialize
InitFailed == initPromise # "pending" /\ initPromise # "null" /\ tracer = "null"

\* C29: the failure of the client's initialization is written to the console
\* once and the init promise still fulfils; a later call of initOtelClient
\* does not run the initialization again; no createSpan call invokes its
\* callback before the initialization is over, and after the failure each
\* call invokes it once, with no span and with helpers that start no span and
\* send nothing through the traced transport, and hands its caller exactly
\* what the callback produced.
C29_InitFailureDegrades ==
    /\ clientLog.runs <= 1
    /\ initPromise = "pending" => \A k \in Ops : ops[k].calls = 0
    /\ InitFailed =>
          /\ clientLog.errors = 1
          /\ clientLog.rejections = 0 /\ initPromise = "settled"
          /\ cspans = <<>> /\ xhrs = <<>>
          /\ \A k \in Ops :
                /\ ops[k].span = 0
                /\ ops[k].pc \in {"running", "done"} <=> ops[k].calls = 1
                /\ ops[k].calls <= 1
                /\ \A f \in 1..Len(ops[k].frames) : ops[k].frames[f] = 0
                /\ ops[k].pc = "done" =>
                      ops[k].outcome # NoOutcome /\ ops[k].result = ops[k].outcome

\* after the failure initOtelClient was called again, one operation made a
\* request and returned a value, the other called childSpan and threw
C29_Witness ==
    /\ InitFailed
    /\ clientLog.calls = 2
    /\ \E a \in Ops, b \in Ops :
          /\ ops[a].pc = "done" /\ ops[a].result = ok("v1") /\ ops[a].passed > 0
          /\ ops[b].pc = "done" /\ ops[b].result = thrown(Boom)

\* what the wrapper did with a span whose callback produced `out` and what
\* it handed to its caller
C30_Finalized(span, out, result) ==
    /\ span.ends = 1
    /\ result = out
    /\ out.tag = "ok" =>
          span.status = "OK" /\ span.exceptions = 0
    /\ out.tag = "throw" =>
          /\ span.status = "ERROR"
          /\ span.message = out.payload.props.message
          /\ span.exceptions = 1

\* C30: the span of a browser createSpan or childSpan call is not ended while
\* its callback runs and is ended once when the callback has settled: with
\* status OK, and the callback's value returned, when it returned; with status
\* ERROR, the exception recorded, and the same error rethrown, when it threw
\* or rejected.
C30_ClientSpanFinalized ==
    /\ \A k \in Ops :
          ops[k].span # 0 =>
              /\ ops[k].pc = "running" => cspans[ops[k].span].ends = 0
              /\ ops[k].pc = "done" =>
                    C30_Finalized(cspans[ops[k].span], ops[k].outcome, ops[k].result)
    /\ \A n \in CSpanIds :
          cspans[n].fn = "childSpan" =>
              IF \E f \in 1..Len(ops[cspans[n].op].frames) : ops[cspans[n].op].frames[f] = n
              THEN cspans[n].ends = 0 /\ cspans[n].status = "UNSET"
              ELSE C30_Finalized(cspans[n], cspans[n].outcome, cspans[n].result)

\* a childSpan callback threw, its span ended ERROR, and the createSpan
\* callback around it returned a value; another operation's callback threw
C30_Witness ==
    \E k \in Ops, j \in Ops, n \in CSpanIds :
        /\ cspans[n].fn = "childSpan" /\ cspans[n].op = k
        /\ cspans[n].result = thrown(Boom) /\ cspans[n].status = "ERROR"
        /\ ops[k].pc = "done" /\ ops[k].result = ok("v1")
        /\ cspans[ops[k].span].status = "OK"
        /\ ops[j].pc = "done" /\ ops[j].span # 0 /\ ops[j].result = thrown(Boom)
        /\ cspans[ops[j].span].exceptions = 1

\* C31: once a request made through a transport helper has terminated, by a
\* load with any status, a network error or an abort, its HTTP span has been
\* ended exactly once and its promise is settled; the span of an aborted
\* request has status ERROR.
C31_EveryTerminationEndsSpan ==
    \A i \in 1..Len(xhrs) :
        /\ xhrs[i].state = "sent" => HttpSpanOf(i).ends = 0 /\ xhrs[i].promise = "pending"
        /\ xhrs[i].state # "sent" =>
              /\ HttpSpanOf(i).ends = 1
              /\ xhrs[i].promise # "pending"
        /\ xhrs[i].state = "aborted" => HttpSpanOf(i).status = "ERROR"

\* C32: createSpan of the result version hands its caller the very Result
\* its work returned; its span ends OK exactly when that Result is a success
\* and ERROR, with the failure's message, exactly when it is a failure; and a
\* span whose work is still running, the parent of a failed child among
\* them, keeps its status.
C32_InternalResultAndStatus ==
    /\ \A n \in SpanIds :
          (api = "result" /\ spans[n].fn = "internal"
              /\ spans[n].outcome.tag \in {"ok", "err"}) =>
                /\ spans[n].handed = spans[n].outcome
                /\ spans[n].ends = 1
                /\ spans[n].status = "OK" <=> spans[n].outcome.tag = "ok"
                /\ spans[n].status = "ERROR" <=> spans[n].outcome.tag = "err"
                /\ spans[n].outcome.tag = "err" =>
                      spans[n].message = spans[n].outcome.payload.props.message
    /\ \A r \in Reqs : \A f \in 1..Len(stack[r]) :
          LET p == spans[stack[r][f]]
          IN  p.status = "UNSET" /\ p.exceptions = 0 /\ p.attrs = {}

\* a nested createSpan returned a failure and its span ended ERROR while the
\* handler's span, its parent, is still running
C32_Witness ==
    \E n \in SpanIds :
        /\ api = "result" /\ spans[n].fn = "internal"
        /\ spans[n].handed = err(UserNotFound) /\ spans[n].status = "ERROR"
        /\ spans[spans[n].caller].fn = "request"
        /\ spans[spans[n].caller].ends = 0
        /\ Top(spans[n].req) = spans[n].caller

\* the request-scoped spans (middleware, handler) of request r started
\* before span n
EarlierScoped(r, n) ==
    {m \in 1..(n - 1) : spans[m].req = r /\ spans[m].fn \in {"request", "middleware"}}

\* C33: in the result version a request-scoped span is a child of the span
\* whose context an earlier traced step of the same request stored, whatever
\* the traceparent header says; only the first request-scoped span of a
\* request takes its parent from the header (and is a root when the header
\* is missing or malformed).  The stored context is always the one of the
\* request-scoped span started last.
C33_StoredContextFirst ==
    api = "result" =>
        /\ \A n \in SpanIds :
              spans[n].fn \in {"request", "middleware"} =>
                  LET r == spans[n].req
                      before == EarlierScoped(r, n)
                      hdr == parseTraceParent(reqHeader[r])
                  IN  IF before # {}
                      THEN LET m == CHOOSE x \in before : \A y \in before : y <= x
                           IN  /\ spans[n].parentSpanId = spans[m].spanId
                               /\ spans[n].traceId = spans[m].traceId
                      ELSE IF reqHeader[r] # Missing /\ isSpanContextValid(hdr)
                      THEN spans[n].parentSpanId = hdr.spanId /\ spans[n].traceId = hdr.traceId
                      ELSE spans[n].parentSpanId = NoParent
        /\ \A r \in Reqs :
              LET scoped == EarlierScoped(r, Len(spans) + 1)
              IN  IF scoped = {} THEN eventCtx[r] = ROOT_CONTEXT
                  ELSE eventCtx[r] =
                          spanContext(spans[CHOOSE x \in scoped : \A y \in scoped : y <= x])

\* a request that came with a valid header: the middleware is the child of
\* the header's span, and the handler after it is the child of the
\* middleware, not of the header's span
C33_Witness ==
    \E n \in SpanIds, m \in SpanIds :
        /\ api = "result"
        /\ spans[m].fn = "middleware" /\ spans[n].fn = "request" /\ spans[n].req = spans[m].req
        /\ reqHeader[spans[n].req] = traceParent(TraceA, SpanA)
        /\ spans[m].parentSpanId = SpanA
        /\ spans[n].parentSpanId = spans[m].spanId
        /\ spans[n].parentSpanId # SpanA

\* C34: request-scoped spans that the work of a handler forks in parallel
\* are children of the span that was current when they were forked, the span
\* of the work that forked them: no branch is the child of another branch.
C34_ParallelBranchesAreSiblings ==
    \A n \in Forks :
        /\ spans[n].parentSpanId = spans[spans[n].caller].spanId
        /\ \A m \in Forks : spans[n].parentSpanId # spans[m].spanId

C36_ChildEndsBeforeParent ==
    /\ \A n \in SpanIds :
          (spans[n].fn = "internal" /\ spans[spans[n].caller].ends > 0) => spans[n].ends > 0
    /\ \A n \in CSpanIds :
          (cspans[n].fn = "childSpan" /\ cspans[cspans[n].caller].ends > 0) =>
              cspans[n].ends > 0

\* a wrapper ends a span only in the step in which the work of the span
\* settles
C37_EndsOnlyOnSettle ==
    /\ \A n \in SpanIds :
          spans'[n].ends > spans[n].ends => (~Settled(n) /\ spans'[n].outcome # NoOutcome)
    /\ \A n \in CSpanIds :
          (cspans[n].fn = "childSpan" /\ cspans'[n].ends > cspans[n].ends) =>
              (cspans[n].outcome = NoOutcome /\ cspans'[n].outcome # NoOutcome)
    /\ \A k \in Ops :
          (ops[k].span \in CSpanIds /\ cspans'[ops[k].span].ends > cspans[ops[k].span].ends) =>
              (ops[k].pc = "running" /\ ops'[k].pc = "done")

\* C37: when every piece of work settles sooner or later, every span a
\* server wrapper, the browser's createSpan or childSpan started is ended
\* sooner or later; and no wrapper ends a span whose work has not settled.
C37_SpanEndsWhenWorkSettles ==
    /\ \A n \in 1..MaxSpans : (n \in SpanIds) ~> (n \in SpanIds /\ spans[n].ends = 1)
    /\ \A n \in 1..(NumOps + MaxXhr + MaxChild) :
          (n \in CSpanIds /\ cspans[n].fn # "http") ~>
              (n \in CSpanIds /\ cspans[n].ends = 1)
    /\ [][C37_EndsOnlyOnSettle]_vars

\* the paths of Paths that start with /api/ and are not /api/otel-proxy
C38_TracedPaths == {ApiPrefix, TestTracePath, OtelProxyQueryPath}
C38_MiddlewareSpans(r) == {n \in SpanIds : spans[n].req = r /\ spans[n].fn = "middleware"}

\* C38: the example middleware starts a span, stores its context and writes
\* the trace headers exactly for the requests whose path starts with /api/
\* and is not /api/otel-proxy; for any other request it starts no span,
\* leaves the event's context and the response headers unset and hands the
\* request on without an answer of its own.
C38_MiddlewareOnlyForApi ==
    \A r \in Reqs :
        /\ phase[r] # "new" => (reqPath[r] \in C38_TracedPaths <=> C38_MiddlewareSpans(r) # {})
        /\ (reqPath[r] \in C38_TracedPaths /\ phase[r] = "middleware") =>
              \E n \in C38_MiddlewareSpans(r) :
                  /\ respHeaders[r] = HeaderIdsOf(n)
                  /\ eventCtx[r] # ROOT_CONTEXT
        /\ reqPath[r] \notin C38_TracedPaths =>
              /\ phase[r] # "middleware"
              /\ eventCtx[r] = ROOT_CONTEXT
              /\ respHeaders[r] = NoHeaders
              /\ phase[r] = "mwDone" => response[r] = NoResponse

\* a request to /api/otel-proxy was handed on by the middleware while one to
\* /api/test-trace is in the traced middleware
C38_Witness ==
    \E a, b \in Reqs :
        /\ reqPath[a] = OtelProxyPath /\ phase[a] = "mwDone"
        /\ reqPath[b] = TestTracePath /\ phase[b] = "middleware"
        /\ C38_MiddlewareSpans(b) # {}

\* no span is on its way to the collector through the proxy
C39_NoExportTraffic ==
    /\ \A n \in CSpanIds : cspans[n].exported \notin {"queued", "posting"}
    /\ \A r \in Reqs : reqPath[r] = ExporterUrl => phase[r] = "absent"

\* the spans there are were started by the application
C39_OnlyApplicationSpans ==
    /\ \A n \in CSpanIds : cspans[n].fn \in {"createSpan", "childSpan", "http"}
    /\ \A n \in SpanIds : reqPath[spans[n].req] # ExporterUrl
    /\ Len(cspans) <= 1 + MaxChild
    /\ Len(spans) <= 2

\* C39: exporting starts no span: the exporter's POST to /api/otel-proxy
\* gets no span from the fetch instrumentation and none from the server's
\* middleware or proxy handler, so the spans are those of the application,
\* and sooner or later no export is under way any more.
C39_ExportCreatesNoSpans ==
    /\ []C39_OnlyApplicationSpans
    /\ <>[]C39_NoExportTraffic

\* the spans of a page and of a request have all been exported, the page's
\* through the proxy
C39_Witness ==
    /\ Len(cspans) >= 2
    /\ \A n \in CSpanIds : cspans[n].exported \in {"ok", "failed"} /\ cspans[n].post # 0
    /\ \E n \in CSpanIds : cspans[n].exported = "ok"
    /\ Len(spans) = 2
    /\ \A n \in SpanIds : spans[n].exported = "ok"
    /\ C39_NoExportTraffic
====
